---- MODULE Spec2Model ----
(***************************************************************************)
(* A model of ecency/imagehoster: signed-upload admission (src/upload.ts), *)
(* the content-addressed upload store and the handlers that read or write  *)
(* it (src/serve.ts, src/proxy.ts, src/avatar.ts, src/cover.ts).           *)
(*                                                                         *)
(* Abstractions of what lies outside the repository:                       *)
(*  - sha256 / multihash / base58 are collision-free: a digest is the      *)
(*    tagged value it was computed from;                                   *)
(*  - a secp256k1 signature is the pair (signing key, digest signed);      *)
(*    recovering a key from a signature over another digest yields a key   *)
(*    that belongs to nobody;                                              *)
(*  - the `ratelimiter` package counts the calls of one id in its window   *)
(*    and reports remaining = max - calls before this one (0 once used up);*)
(*  - a request's parameters are fixed on arrival; the model draws each    *)
(*    of them at the step that first reads it (no step writes them).       *)
(***************************************************************************)
EXTENDS Integers, Sequences, FiniteSets, TLC

(***************************************************************************)
(* Bounds of the model and (scaled) program constants.                     *)
(***************************************************************************)
\* Date.now() ranges over 0..MaxTime.
MaxTime == 2

\* config max_image_size (src/upload.ts:17), scaled to a few bytes.
MAX_IMAGE_SIZE == 3
\* config upload_limits.max (src/upload.ts:69), scaled.
UPLOAD_LIMITS_max == 2
\* config upload_limits.reputation (src/upload.ts:349).
UPLOAD_LIMITS_reputation == 10
\* getAccount / getProfile only ask the chain for names of at most 16 chars.
MAX_NAME_LENGTH == 16

UPLOAD_LIMITS_app_account == "ecency.app"
BroadcasterPubKey == "Kbroadcaster"

(***************************************************************************)
(* Number.parseInt on a header value, given as a sequence of characters.   *)
(***************************************************************************)
DigitVal == ("0" :> 0) @@ ("1" :> 1) @@ ("2" :> 2) @@ ("3" :> 3) @@ ("4" :> 4)
            @@ ("5" :> 5) @@ ("6" :> 6) @@ ("7" :> 7) @@ ("8" :> 8) @@ ("9" :> 9)

NaN == [finite |-> FALSE, val |-> 0]

RECURSIVE ParseDigits(_, _, _)
ParseDigits(s, i, acc) ==
    IF i > Len(s) \/ s[i] \notin DOMAIN DigitVal
    THEN acc
    ELSE ParseDigits(s, i + 1, acc * 10 + DigitVal[s[i]])

\* Optional sign, then the longest prefix of digits; NaN when there is none.
ParseInt(s) ==
    LET signed == Len(s) > 0 /\ s[1] \in {"-", "+"}
        start  == IF signed THEN 2 ELSE 1
        sign   == IF signed /\ s[1] = "-" THEN -1 ELSE 1
    IN  IF start > Len(s) \/ s[start] \notin DOMAIN DigitVal
        THEN NaN
        ELSE [finite |-> TRUE, val |-> sign * ParseDigits(s, start, 0)]

(***************************************************************************)
(* Blobs (byte strings), what mimeMagic sniffs in them, their length.      *)
(***************************************************************************)
Blobs == {"jpgA", "jpgB", "text", "huge"}

ByteLength(b) == CASE b = "jpgA" -> 2
                   [] b = "jpgB" -> MAX_IMAGE_SIZE
                   [] b = "text" -> 1
                   [] b = "huge" -> MAX_IMAGE_SIZE + 1
                   [] OTHER      -> 1

AcceptedContentTypes ==
    { <<"image", "gif">>, <<"image", "jpeg">>, <<"image", "png">>,
      <<"image", "webp">>, <<"image", "svg+xml">>, <<"image", "svg">>,
      <<"image", "bmp">>, <<"image", "apng">>, <<"image", "avif">> }

(***************************************************************************)
(* File names: sequences of characters.                                    *)
(***************************************************************************)
LowerOf == ("A" :> "a") @@ ("B" :> "b") @@ ("J" :> "j")
NameChars == {"a", "b", "j", "1", "."}

ToLowerChar(c) == IF c \in DOMAIN LowerOf THEN LowerOf[c] ELSE c

\* name.replace(/[^a-z0-9.]/gi, '_')
ReplaceOdd(s) ==
    [i \in 1..Len(s) |-> IF ToLowerChar(s[i]) \in NameChars THEN s[i] ELSE "_"]

\* .replace(/_{2,}/g, '_')
RECURSIVE Collapse(_)
Collapse(s) ==
    IF Len(s) < 2 THEN s
    ELSE IF s[1] = "_" /\ s[2] = "_" THEN Collapse(Tail(s))
    ELSE <<s[1]>> \o Collapse(Tail(s))

\* .toLowerCase()
LowerAll(s) == [i \in 1..Len(s) |-> ToLowerChar(s[i])]

SanitizeName(s) == LowerAll(Collapse(ReplaceOdd(s)))

HasDot(s) == \E i \in 1..Len(s) : s[i] = "."

\* file.mime.split('/')[1] || 'png'
MimeExt(mime) == IF Len(mime) >= 2 /\ mime[2] # "" THEN mime[2] ELSE "png"

\* FileName generating a name for every file.
FileName_Generated(raw, mime, t) ==
    [generated |-> TRUE, ts |-> t, text |-> <<MimeExt(mime)>>]

\* The name an upload is filed under: the sanitized name, or, when that is
\* empty or has no '.', `image-${Date.now()}.${ext}`.
FileName(raw, mime, t) ==
    LET name == SanitizeName(raw)
    IN  IF Len(name) = 0 \/ ~HasDot(name)
        THEN [generated |-> TRUE, ts |-> t, text |-> <<MimeExt(mime)>>]
        ELSE [generated |-> FALSE, ts |-> 0, text |-> name]

(***************************************************************************)
(* Digests and signatures.                                                 *)
(***************************************************************************)
\* createHash('sha256').update('ImageSigningChallenge').update(data).digest()
ImageHash(data) == [kind |-> "image", body |-> <<"ImageSigningChallenge", data>>]

\* cryptoUtils.sha256(JSON.stringify({signed_message, authors, timestamp}))
TokenHash(token) ==
    [kind |-> "token",
     body |-> <<token.signed_message, token.authors, token.timestamp>>]

SameDigest(h1, h2) == h1.kind = h2.kind /\ h1.body = h2.body

\* A signature string that Signature.fromString cannot parse.
MalformedSig == [by |-> "", over |-> [kind |-> "none", body |-> <<>>]]
IsMalformedSig(sig) == sig.by = ""

\* PublicKey.verify(hash, signature)
PubVerify(pub, hash, sig) == sig.by = pub /\ SameDigest(sig.over, hash)

\* signature.recover(hash).toString(): the signer's key when the signature
\* was made over `hash`, else a key that is nobody's.
Recover(sig, hash) == IF SameDigest(sig.over, hash) THEN sig.by ELSE "Kunrelated"

\* 'D' + multihash.toB58String(multihash.encode(imageHash, 'sha2-256'))
UploadKey(imageHash) == "D" \o imageHash.body[2]

(***************************************************************************)
(* The chain: accounts with their authorities, and profiles.               *)
(***************************************************************************)
Authority(threshold, accounts, keys) ==
    [weight_threshold |-> threshold, account_auths |-> accounts, key_auths |-> keys]

Chain ==
    [ foo |->
        [name    |-> "foo",
         posting |-> Authority(1, <<>>, << <<"Kfoo", 1>> >>),
         active  |-> Authority(1, <<>>, << <<"Kfoo", 1>> >>),
         owner   |-> Authority(1, <<>>, << <<"KfooOwner", 1>> >>)],
      bar |->
        [name    |-> "bar",
         posting |-> Authority(1, <<>>, << <<"Kbar", 1>> >>),
         active  |-> Authority(1, <<>>, << <<"Kfoo", 1>> >>),
         owner   |-> Authority(1, <<>>, << <<"KbarOwner", 1>> >>)],
      low |->
        [name    |-> "low",
         posting |-> Authority(2, <<>>, << <<"Klow", 1>>, <<"Kmulti", 2>> >>),
         active  |-> Authority(1, <<>>, << <<"Kact", 1>> >>),
         owner   |-> Authority(1, <<>>, << <<"Klow", 1>> >>)],
      app |->
        [name    |-> "app",
         posting |-> Authority(1, << <<UPLOAD_LIMITS_app_account, 1>> >>,
                               << <<"Kappuser", 1>> >>),
         active  |-> Authority(1, <<>>, << <<"Kappuser", 1>> >>),
         owner   |-> Authority(1, <<>>, << <<"Kappuser", 1>> >>)],
      bad |->
        [name    |-> "bad",
         posting |-> Authority(1, <<>>, << <<"Kbad", 1>> >>),
         active  |-> Authority(1, <<>>, << <<"Kbad", 1>> >>),
         owner   |-> Authority(1, <<>>, << <<"Kbad", 1>> >>)] ]

ChainNames == DOMAIN Chain

Reputation == [foo |-> 65, bar |-> 25, low |-> 5, app |-> 65, bad |-> 65]

\* accountBlacklist.includes(name): the static seed of the account blacklist.
AccountBlacklist == {"bad"}

\* String.toLowerCase() on the user names the model uses.
LowerName == [n \in {"Foo"} |-> "foo"]
ToLowerCase(n) == IF n \in DOMAIN LowerName THEN LowerName[n] ELSE n

\* What `const [account] = await getAccount(user, false)` sees:
\*   "undefined" - no array at all (name too long, or the RPC call threw),
\*   "none"      - an array without an account in it,
\*   "account"   - the account.
Lookup(kind, name) == [kind |-> kind, name |-> name]

getAccount(user, rpcOk) ==
    IF Len(user) <= MAX_NAME_LENGTH /\ rpcOk
    THEN IF user \in ChainNames THEN Lookup("account", user) ELSE Lookup("none", "")
    ELSE Lookup("undefined", "")

\* getProfile(user, false): the profile, or none.
getProfile(user, rpcOk) ==
    IF Len(user) <= MAX_NAME_LENGTH /\ rpcOk /\ user \in ChainNames
    THEN [found |-> TRUE, name |-> user, reputation |-> Reputation[user]]
    ELSE [found |-> FALSE, name |-> "", reputation |-> 0]

(***************************************************************************)
(* OAuth (HiveSigner) tokens, as decoded from the path parameter.          *)
(***************************************************************************)
SignedMessage(type, app) == [type |-> type, app |-> app]
\* signed_message missing from the token.
NoSignedMessage == SignedMessage("", "")

Token(json, sm, authors, signatures) ==
    [json |-> json, signed_message |-> sm, authors |-> authors,
     signatures |-> signatures, timestamp |-> 0]

NoToken == Token("none", NoSignedMessage, <<>>, <<>>)

TokenTypes == {"login", "posting", "offline", "code", "refresh"}

\* The condition both handlers put on a decoded token before they use it.
WellFormed(token) ==
    /\ Len(token.authors) >= 1
    /\ token.authors[1] # ""
    /\ Len(token.signatures) >= 1
    /\ token.signed_message # NoSignedMessage
    /\ token.signed_message.type # ""
    /\ token.signed_message.type \in TokenTypes
    /\ token.signed_message.app # ""

(***************************************************************************)
(* Signature verification.                                                 *)
(***************************************************************************)
AuthorityOf(account, type) ==
    CASE type = "posting" -> account.posting
      [] type = "active"  -> account.active
      [] OTHER            -> account.owner

\* Some key_auths entry of the authorities `types` verifies the signature.
KeyAuthVerifies(account, types, hash, sig) ==
    \E t \in types :
        \E i \in 1..Len(AuthorityOf(account, t).key_auths) :
            PubVerify(AuthorityOf(account, t).key_auths[i][1], hash, sig)

\* Some account_auths entry of the authorities `types` is the app account.
AppAccountAuthorised(account, types) ==
    \E t \in types :
        \E i \in 1..Len(AuthorityOf(account, t).account_auths) :
            AuthorityOf(account, t).account_auths[i][1] = UPLOAD_LIMITS_app_account

\* KeyWeightReached asking for a weight above the threshold.
KeyWeightReached_Above(authority, publicKey) ==
    \E i \in 1..Len(authority.key_auths) :
        /\ authority.key_auths[i][1] = publicKey
        /\ authority.key_auths[i][2] > authority.weight_threshold

\* One of the two loops of the direct mode: the recovered key is in the
\* authority with a weight that reaches its threshold.
KeyWeightReached(authority, publicKey) ==
    \E i \in 1..Len(authority.key_auths) :
        /\ authority.key_auths[i][1] = publicKey
        /\ authority.key_auths[i][2] >= authority.weight_threshold

\* uploadHandler, direct mode: recover the key, look it up in posting, active.
VerifyDirect(account, sig, imageHash) ==
    LET publicKey == Recover(sig, imageHash)
    IN  \/ KeyWeightReached(account.posting, publicKey)
        \/ KeyWeightReached(account.active, publicKey)

\* uploadHandler, signature starting with "hive".
VerifyHiveToken(account, token) ==
    LET hash  == TokenHash(token)
        signs == token.signatures[1]
    IN  \/ PubVerify(BroadcasterPubKey, hash, signs)
        \/ KeyAuthVerifies(account, {"posting", "active", "owner"}, hash, signs)

\* uploadHsHandler.
VerifyHsToken(account, token) ==
    LET hash      == TokenHash(token)
        signature == token.signatures[1]
    IN  \/ PubVerify(BroadcasterPubKey, hash, signature)
        \/ AppAccountAuthorised(account, {"posting", "active", "owner"})
        \/ KeyAuthVerifies(account, {"posting", "active", "owner"}, hash, signature)

(***************************************************************************)
(* Credentials: the :signature parameter of uploadHandler ("hive" + token, *)
(* "stndt...", or a signature string) or the :accesstoken of               *)
(* uploadHsHandler.                                                        *)
(***************************************************************************)
Cred(kind, sig, token) == [kind |-> kind, sig |-> sig, token |-> token]
NoCred == Cred("none", MalformedSig, NoToken)

\* Verdict with the InvalidSignature assertions taken out.
Verdict_Unasserted(result, account, valid) ==
    [result |-> IF result = "InvalidSignature" THEN "pass" ELSE result,
     account |-> account, valid |-> valid]

\* What the authentication part of a handler ends in: "pass", or the error.
Verdict(result, account, valid) ==
    [result |-> result, account |-> account, valid |-> valid]

\* LegacyTestMode as the bypass it once was.
LegacyTestMode_Bypass(account) == Verdict("pass", account.name, TRUE)

\* uploadHandler, signature starting with "stndt": the legacy test mode.
LegacyTestMode(account) == Verdict("InvalidSignature", account.name, FALSE)

\* uploadHandler from getAccount to the blacklist assertion.
UploadAuth(username, cred, data, rpcOk) ==
    LET user  == ToLowerCase(username)
        found == getAccount(user, rpcOk)
    IN  IF found.kind = "undefined" THEN Verdict("Exception", "", FALSE)
        ELSE IF found.kind = "none" THEN Verdict("NoSuchAccount", "", FALSE)
        ELSE
          LET account == Chain[found.name]
              blacklisted == account.name \in AccountBlacklist
              Checked(valid) ==
                  IF ~valid THEN Verdict("InvalidSignature", account.name, FALSE)
                  ELSE IF blacklisted THEN Verdict("Blacklisted", account.name, TRUE)
                  ELSE Verdict("pass", account.name, TRUE)
          IN  CASE cred.kind = "hive" ->
                     IF cred.token.json # "object"
                     THEN Verdict("Exception", account.name, FALSE)
                     ELSE IF ~WellFormed(cred.token) THEN Checked(FALSE)
                     ELSE IF IsMalformedSig(cred.token.signatures[1])
                     THEN Verdict("Exception", account.name, FALSE)
                     ELSE Checked(VerifyHiveToken(account, cred.token))
                [] cred.kind = "stndt" -> LegacyTestMode(account)
                [] OTHER ->
                     IF IsMalformedSig(cred.sig) THEN Checked(FALSE)
                     ELSE Checked(VerifyDirect(account, cred.sig, ImageHash(data)))

\* uploadHsHandler from the token's decoding to the blacklist assertion.
HsAuth(cred, rpcOk) ==
    LET token == cred.token
    IN  IF token.json # "object" THEN Verdict("Exception", "", FALSE)
        ELSE IF ~WellFormed(token) THEN Verdict("NoResponse", "", FALSE)
        ELSE
          LET username == token.authors[1]
              found    == getAccount(username, rpcOk)
          IN  IF found.kind = "undefined" THEN Verdict("Exception", "", FALSE)
              ELSE IF found.kind = "none" THEN Verdict("NoSuchAccount", "", FALSE)
              ELSE
                LET account == Chain[found.name]
                IN  IF username # account.name
                    THEN Verdict("InvalidSignature", account.name, FALSE)
                    ELSE IF IsMalformedSig(token.signatures[1])
                    THEN Verdict("Exception", account.name, FALSE)
                    ELSE IF ~VerifyHsToken(account, token)
                    THEN Verdict("InvalidSignature", account.name, FALSE)
                    ELSE IF account.name \in AccountBlacklist
                    THEN Verdict("Blacklisted", account.name, TRUE)
                    ELSE Verdict("pass", account.name, TRUE)

(***************************************************************************)
(* The checks both upload handlers make before they authenticate.          *)
(***************************************************************************)
NoFile == [present |-> FALSE, data |-> "", raw |-> <<>>, mime |-> <<>>]
File(data, raw, mime) == [present |-> TRUE, data |-> data, raw |-> raw, mime |-> mime]

\* busboy's limits.fileSize: a longer file part is cut and marked truncated.
Truncated(file) == ByteLength(file.data) > MAX_IMAGE_SIZE

\* HeaderChecks refusing a Content-Length of exactly MAX_IMAGE_SIZE.
HeaderChecks_Below(multipart, header) ==
    LET contentLength == ParseInt(header)
    IN  IF ~multipart THEN "BadRequest"
        ELSE IF ~contentLength.finite THEN "LengthRequired"
        ELSE IF ~(contentLength.val < MAX_IMAGE_SIZE) THEN "PayloadTooLarge"
        ELSE "pass"

\* The assertions on the request's headers, made before the body is read.
HeaderChecks(multipart, header) ==
    LET contentLength == ParseInt(header)
    IN  IF ~multipart THEN "BadRequest"
        ELSE IF ~contentLength.finite THEN "LengthRequired"
        ELSE IF ~(contentLength.val <= MAX_IMAGE_SIZE) THEN "PayloadTooLarge"
        ELSE "pass"

\* parseMultipart, readStream and the assertions on the file.
FileChecks(handler, file) ==
    IF ~file.present THEN "FileMissing"
    ELSE IF Truncated(file) THEN "PayloadTooLarge"
    ELSE IF handler = "hs" /\ file.mime \notin AcceptedContentTypes
    THEN "InvalidImage"
    ELSE "pass"

(***************************************************************************)
(* State.                                                                  *)
(***************************************************************************)
VARIABLES
    up,           \* the upload request in flight: its position and locals,
                  \* and whether the chain answered its last call (rpcOk)
    uploadStore,  \* the upload blob store
    proxyStore,   \* the proxy blob store: fetched originals, converted images
    limiter,      \* rate limiter: account -> calls in its current window
    now,          \* Date.now()
    stored,       \* history: the (key, bytes) pairs upload requests wrote
    served,       \* history: the number of GET requests answered
    prev,         \* history: the bytes, file name and url of the last upload
                  \* answered with 200, where a specification records it
    last,         \* history: the last GET request and its response, where a
                  \* specification records it
    passed,       \* history: account -> the uploads that passed the quota
                  \* check in its current window with the limiter reachable
    fetch,        \* the call of fetchImageWithFallbacks in flight
    flights,      \* the concurrent proxy requests for one (url, options):
                  \* each one's position, its origData and its response body
    blacklist,    \* the blacklist service: its cache's lastFetch and
                  \* failCount, the clock, the refresh timer, and a history
                  \* of its refresh attempts
    unwrap        \* the proxy handler resolving the :url of a request: its
                  \* position, the url it holds, and a history of the loop

vars == <<up, uploadStore, proxyStore, limiter, now, stored, served, prev,
          last, passed, fetch, flights, blacklist, unwrap>>

\* A blob store is a function from the keys it holds to their bytes.
EmptyStore == [k \in {} |-> ""]
Exists(store, key) == key \in DOMAIN store
Put(store, key, data) ==
    [k \in DOMAIN store \cup {key} |-> IF k = key THEN data ELSE store[k]]
Remove(store, key) == [k \in DOMAIN store \ {key} |-> store[k]]

UploadBlobs == {"jpgA", "text"}

NoName == [generated |-> FALSE, ts |-> 0, text |-> <<>>]
NoUrl == [key |-> "", name |-> NoName]

NoPrev == [set |-> FALSE, data |-> "", raw |-> <<>>, url |-> NoUrl]

Idle ==
    [pc |-> "idle", handler |-> "", multipart |-> FALSE, header |-> <<>>,
     file |-> NoFile, name |-> NoName, username |-> "", cred |-> NoCred,
     account |-> "", validSignature |-> FALSE, probed |-> FALSE,
     wrote |-> FALSE, result |-> "", url |-> NoUrl, rpcOk |-> TRUE,
     redisOk |-> TRUE]

\* No GET request answered yet.
NoLast ==
    [set |-> FALSE, handler |-> "",
     url |-> [origin |-> "", first |-> "", rest |-> ""], blacklisted |-> FALSE,
     options |-> [width |-> 0, height |-> 0, mode |-> "", format |-> "",
                  ignorecache |-> FALSE, invalidate |-> FALSE, refetch |-> FALSE],
     fresh |-> FALSE,
     world |-> [cands |-> <<>>, def |-> [threw |-> TRUE, statusCode |-> 0, body |-> ""]],
     io |-> [exists |-> TRUE, read |-> TRUE, write |-> TRUE, remove |-> TRUE],
     before |-> [us |-> EmptyStore, ps |-> EmptyStore],
     status |-> "", body |-> "", cache |-> "", etag |-> "", vary |-> FALSE,
     redirect |-> [set |-> FALSE]]

\* No call of fetchImageWithFallbacks in flight.
NoFetch ==
    [pc |-> "idle", urlString |-> "", urlParams |-> "", defaultUrl |-> "",
     skipUrls |-> {},
     world |-> [cands |-> <<>>, def |-> [threw |-> TRUE, statusCode |-> 0, body |-> ""]],
     urls |-> <<>>, i |-> 0, asked |-> <<>>, outstanding |-> 0,
     res |-> [threw |-> TRUE, statusCode |-> 0, body |-> ""], isFallback |-> FALSE]

\* The blacklist service before initBlacklistService: no remote URL read
\* from the configuration yet, no timer set.
NotStarted ==
    [images_url |-> FALSE, accounts_url |-> FALSE, started |-> FALSE,
     lastFetch |-> 0, failCount |-> 0, clock |-> 0, due |-> 0,
     did |-> "", streak |-> 0, fifthAt |-> 0]

\* The concurrent proxy requests for one (url, options).
MaxFlights == 3
NoFlight ==
    [pc |-> "idle", origData |-> "", body |-> "", source |-> "", orig |-> "none",
     image |-> "none"]

\* A :url parameter, or what follows '/p/' in a path: a token and what is
\* written after it. The token is the base58 of a URL: of `leaf` when
\* `exts` is empty, and otherwise of the service's /p/ URL of the token
\* with the rest of `exts`, written with the extension Head(exts).
ProxyToken(exts, leaf) == [exts |-> exts, leaf |-> leaf]
ProxyParam(token, ext) == [token |-> token, ext |-> ext]
\* A text that is not the base58 of a URL.
Garbage == ProxyParam(ProxyToken(<<>>, "garbage"), "")
\* A URL: its origin, pathname.slice(0, 2), and pathname.slice(3).
Href(origin, prefix, rest) == [origin |-> origin, prefix |-> prefix, rest |-> rest]

NotUnwrapping ==
    [pc |-> "idle", param |-> Garbage, url |-> Href("", "", Garbage),
     iterations |-> 0, undecodable |-> FALSE]

Init ==
    /\ unwrap = NotUnwrapping
    /\ up = Idle
    /\ uploadStore = EmptyStore
    /\ proxyStore = EmptyStore
    /\ served = 0
    /\ prev = NoPrev
    /\ limiter = [a \in ChainNames |-> 0]
    /\ now = 0
    /\ stored = {}
    /\ last = NoLast
    /\ passed = [a \in ChainNames |-> 0]
    /\ fetch = NoFetch
    /\ flights = [i \in 1 .. MaxFlights |-> NoFlight]
    /\ blacklist = NotStarted

Finish(r, result) == [r EXCEPT !.pc = "done", !.result = result]

(***************************************************************************)
(* The upload handlers, one action per stretch between two awaits on       *)
(* shared state.                                                           *)
(***************************************************************************)
\* A request arrives and is checked up to imageHash. The body is only read
\* once the header assertions have passed.
Receive(Handlers, Headers, Files) ==
    /\ up.pc = "idle"
    /\ \E handler \in Handlers, multipart \in BOOLEAN, header \in Headers :
          LET r == [Idle EXCEPT !.handler = handler, !.multipart = multipart,
                                !.header = header]
              early == HeaderChecks(multipart, header)
          IN  IF early # "pass"
              THEN up' = Finish(r, early)
              ELSE \E file \in Files :
                      LET checked == FileChecks(handler, file)
                          rf == [r EXCEPT !.file = file]
                      IN  up' = IF checked = "pass"
                                THEN [rf EXCEPT !.pc = "auth",
                                         !.name = FileName(file.raw, file.mime, now)]
                                ELSE Finish(rf, checked)
    /\ UNCHANGED <<uploadStore, proxyStore, limiter, now, stored, served, prev, last, passed, fetch, flights, blacklist, unwrap>>

\* getAccount, signature verification, the blacklist assertion.
Authenticate(Names, Creds) ==
    /\ up.pc = "auth"
    /\ \E username \in Names, cred \in Creds, rpcOk \in BOOLEAN :
          /\ up.handler = "hs" => cred.kind = "hs" /\ username = ""
          /\ up.handler = "upload" => cred.kind # "hs" /\ username # ""
          /\ LET verdict == IF up.handler = "hs"
                            THEN HsAuth(cred, rpcOk)
                            ELSE UploadAuth(username, cred, up.file.data, rpcOk)
                 r == [up EXCEPT !.header = <<>>, !.multipart = FALSE,
                                 !.username = username, !.cred = cred,
                                 !.rpcOk = rpcOk,
                                 !.account = verdict.account,
                                 !.validSignature = verdict.valid]
             IN  up' = IF verdict.result = "pass"
                       THEN [r EXCEPT !.pc = "limit"]
                       ELSE Finish(r, verdict.result)
    /\ UNCHANGED <<uploadStore, proxyStore, limiter, now, stored, served, prev, last, passed, fetch, flights, blacklist, unwrap>>

\* limit.remaining of the rate limiter after `used` calls of the account in
\* its window: the calls left, this one included.
Remaining_Inclusive(used) ==
    IF used <= UPLOAD_LIMITS_max THEN UPLOAD_LIMITS_max - used + 1 ELSE 0

Remaining(used) ==
    IF used < UPLOAD_LIMITS_max THEN UPLOAD_LIMITS_max - used ELSE 0

\* getRatelimit(account): the promise rejects when redis is not configured
\* (the throw in the executor) or when limit.get reports an error.
getRatelimit(used, redisOk) ==
    [threw |-> ~redisOk, remaining |-> IF redisOk THEN Remaining(used) ELSE 0]

\* The quota assertion without the try/catch around getRatelimit.
QuotaLeft_Unguarded(used, redisOk) ==
    LET limit == getRatelimit(used, redisOk)
    IN  ~limit.threw /\ limit.remaining > 0

\* limit = {remaining: Infinity}; try { limit = await getRatelimit(...) }
\* catch { warn }; limit.remaining > 0
QuotaLeft(used, redisOk) ==
    LET limit == getRatelimit(used, redisOk)
    IN  limit.threw \/ limit.remaining > 0

\* getRatelimit(account.name) and the quota assertion.
RateLimit ==
    /\ up.pc = "limit"
    /\ \E redisOk \in BOOLEAN :
          LET used == limiter[up.account]
              ok   == QuotaLeft(used, redisOk)
              r    == [up EXCEPT !.redisOk = redisOk]
          IN  /\ limiter' = IF redisOk /\ used < UPLOAD_LIMITS_max
                            THEN [limiter EXCEPT ![up.account] = used + 1]
                            ELSE limiter
              /\ passed' = IF redisOk /\ ok /\ passed[up.account] <= UPLOAD_LIMITS_max
                           THEN [passed EXCEPT ![up.account] = @ + 1]
                           ELSE passed
              /\ up' = IF ok THEN [r EXCEPT !.pc = "profile"]
                       ELSE Finish(r, "QoutaExceeded")
    /\ UNCHANGED <<uploadStore, proxyStore, now, stored, served, prev, last, fetch, flights, blacklist, unwrap>>

\* The user name getProfile is asked for: the path parameter lowercased in
\* uploadHandler, the token's first author in uploadHsHandler.
ProfileName(r) ==
    IF r.handler = "hs" THEN r.cred.token.authors[1] ELSE ToLowerCase(r.username)

\* getProfile and the reputation assertion.
CheckReputation ==
    /\ up.pc = "profile"
    /\ \E rpcOk \in BOOLEAN :
          LET profile == getProfile(ProfileName(up), rpcOk)
              r       == [up EXCEPT !.rpcOk = rpcOk]
          IN  up' = IF profile.found /\ profile.reputation >= UPLOAD_LIMITS_reputation
                    THEN [r EXCEPT !.pc = "exists"]
                    ELSE Finish(r, "Deplorable")
    /\ UNCHANGED <<uploadStore, proxyStore, limiter, now, stored, served, prev, last, passed, fetch, flights, blacklist, unwrap>>

\* key, url and storeExists(uploadStore, key); a store error is not caught.
StoreExists ==
    /\ up.pc = "exists"
    /\ \E storeOk \in BOOLEAN :
          LET key == UploadKey(ImageHash(up.file.data))
              r   == [up EXCEPT !.url = [key |-> key, name |-> up.name],
                                !.probed = TRUE]
          IN  up' = IF ~storeOk THEN Finish(r, "Exception")
                    ELSE IF Exists(uploadStore, key) THEN Finish(r, "OK")
                    ELSE [r EXCEPT !.pc = "write"]
    /\ UNCHANGED <<uploadStore, proxyStore, limiter, now, stored, served, prev, last, passed, fetch, flights, blacklist, unwrap>>

\* The handler giving the call back to the account when the write fails.
StoreWrite_Refund ==
    /\ up.pc = "write"
    /\ \E storeOk \in BOOLEAN :
          IF storeOk
          THEN /\ uploadStore' = Put(uploadStore, up.url.key, up.file.data)
               /\ stored' = stored \cup {<<up.url.key, up.file.data>>}
               /\ up' = Finish([up EXCEPT !.wrote = TRUE], "OK")
               /\ UNCHANGED limiter
          ELSE /\ UNCHANGED <<uploadStore, stored>>
               /\ up' = Finish(up, "InternalError")
               /\ limiter' = [limiter EXCEPT ![up.account] = IF @ > 0 THEN @ - 1 ELSE 0]
    /\ UNCHANGED <<proxyStore, now, served, prev, last, passed, fetch, flights, blacklist, unwrap>>

\* storeWrite(uploadStore, key, data) and the response.
StoreWrite ==
    /\ up.pc = "write"
    /\ \E storeOk \in BOOLEAN :
          IF storeOk
          THEN /\ uploadStore' = Put(uploadStore, up.url.key, up.file.data)
               /\ stored' = stored \cup {<<up.url.key, up.file.data>>}
               /\ up' = Finish([up EXCEPT !.wrote = TRUE], "OK")
          ELSE /\ UNCHANGED <<uploadStore, stored>>
               /\ up' = Finish(up, "InternalError")
    /\ UNCHANGED <<proxyStore, limiter, now, served, prev, last, passed, fetch, flights, blacklist, unwrap>>

\* The response is out; the next request may come.
Release(remember) ==
    /\ up.pc = "done"
    /\ up' = Idle
    /\ prev' = IF remember /\ up.result = "OK"
               THEN [set |-> TRUE, data |-> up.file.data, raw |-> up.file.raw,
                     url |-> up.url]
               ELSE prev
    /\ UNCHANGED <<uploadStore, proxyStore, limiter, now, stored, served, last, passed, fetch, flights, blacklist, unwrap>>

\* Time passes.
Tick ==
    /\ now < MaxTime
    /\ now' = now + 1
    /\ UNCHANGED <<up, uploadStore, proxyStore, limiter, stored, served, prev, last, passed, fetch, flights, blacklist, unwrap>>

\* The rate-limit window of an account runs out.
WindowExpires ==
    /\ \E a \in ChainNames :
          /\ limiter[a] > 0
          /\ limiter' = [limiter EXCEPT ![a] = 0]
          /\ passed' = [passed EXCEPT ![a] = 0]
    /\ UNCHANGED <<up, uploadStore, proxyStore, now, stored, served, prev, last, fetch, flights, blacklist, unwrap>>

(***************************************************************************)
(* Requests.                                                               *)
(***************************************************************************)
Sig(by, over) == [by |-> by, over |-> over]

Direct(sig)  == Cred("direct", sig, NoToken)
Stndt        == Cred("stndt", MalformedSig, NoToken)
Hive(token)  == Cred("hive", MalformedSig, token)
Hs(token)    == Cred("hs", MalformedSig, token)

\* A token for `author`, of type `type`, signed with key `by`.
SignedToken(author, type, by) ==
    LET t == Token("object", SignedMessage(type, "ecency.app"), <<author>>, <<>>)
    IN  [t EXCEPT !.signatures = <<Sig(by, TokenHash(t))>>]

\* A parameter that does not decode to JSON.
NotJson == Token("text", NoSignedMessage, <<>>, <<>>)

\* Tokens for foo, signed by the broadcaster, that lack a part or carry a
\* type outside the list, and one whose signature string does not parse.
MalformedTokens ==
    LET good == SignedToken("foo", "posting", BroadcasterPubKey)
    IN  { NotJson,
          [good EXCEPT !.authors = <<>>],
          [good EXCEPT !.authors = <<"">>],
          [good EXCEPT !.signatures = <<>>],
          [good EXCEPT !.signed_message = NoSignedMessage],
          [good EXCEPT !.signed_message = SignedMessage("", "ecency.app")],
          [good EXCEPT !.signed_message = SignedMessage("posting", "")],
          SignedToken("foo", "transfer", BroadcasterPubKey) }

UnparsableSigToken ==
    [SignedToken("foo", "posting", BroadcasterPubKey)
        EXCEPT !.signatures = <<MalformedSig>>]

Keys == {"Kfoo", "KfooOwner", "Kbar", "Klow", "Kmulti", "Kact", "Kappuser",
         "Kbad", "Kstranger", BroadcasterPubKey}

AllNames == {"foo", "Foo", "bar", "low", "app", "bad", "nonexistent",
             "averyveryverylongname"}

AllTokens ==
    {SignedToken(a, "posting", k) :
        a \in {"foo", "bar", "app", "bad"},
        k \in {"Kfoo", "KfooOwner", "Kbar", "Kbad", "Kstranger", BroadcasterPubKey}}
    \cup {SignedToken("nonexistent", "login", BroadcasterPubKey),
          SignedToken("Foo", "login", BroadcasterPubKey),
          SignedToken("averyveryverylongname", "code", BroadcasterPubKey),
          UnparsableSigToken}
    \cup MalformedTokens

AllCreds ==
    {Direct(Sig(k, ImageHash("jpgA"))) : k \in Keys}
    \cup {Direct(Sig("Kfoo", ImageHash("text"))), Direct(MalformedSig), Stndt}
    \cup {Hive(t) : t \in AllTokens}
    \cup {Hs(t) : t \in AllTokens}

CoreNames == {"foo", "low", "bad", "nonexistent", "averyveryverylongname"}

CoreCreds ==
    {Direct(Sig("Kfoo", ImageHash(b))) : b \in UploadBlobs}
    \cup {Direct(Sig(k, ImageHash("jpgA"))) : k \in {"Kact", "Kbad"}}
    \cup {Hs(SignedToken(a, "login", BroadcasterPubKey)) : a \in {"foo", "bad"}}
    \cup {Hs(SignedToken("foo", "login", "Kstranger"))}

Jpeg == <<"image", "jpeg">>
Plain == <<"text", "plain">>

AllHeaders == { <<>>, <<"x">>, <<"x", "4">>, <<"-", "1">>, <<"2">>, <<"3">>,
                <<"4">>, <<"4", "x">>, <<"1", "2">> }

CoreFiles ==
    { NoFile,
      File("jpgA", <<"a", ".", "j">>, Jpeg),
      File("jpgA", <<"A", " ", " ", ".", "J">>, Jpeg),
      File("jpgA", <<"a", "b">>, Jpeg),
      File("text", <<"a", ".", "j">>, Plain),
      File("text", <<>>, <<"image">>),
      File("huge", <<"a", ".", "j">>, Jpeg) }

OneFile == {File("jpgA", <<"a", ".", "j">>, Jpeg)}

(***************************************************************************)
(* Images: what mimeMagic and sharp make of a blob.                        *)
(***************************************************************************)
OctetStream == <<"application", "octet-stream">>

\* mimeMagic(data): "page" is an HTML error page, "dflt" the default image,
\* "gifA" a GIF, "bad" a JPEG header followed by garbage.
MimeMagic(b) ==
    CASE b \in {"jpgA", "jpgB", "huge", "bad"} -> Jpeg
      [] b = "gifA"                             -> <<"image", "gif">>
      [] b = "dflt"                             -> <<"image", "png">>
      [] OTHER                                  -> OctetStream

\* Sharp reads the blob: metadata() and toBuffer() succeed.
SharpReads(b) == b \in {"jpgA", "jpgB", "huge", "gifA", "dflt"}

\* image.toBuffer() of the pipeline built for `options` on `data`.
Converted(data, options) ==
    data \o "~" \o options.mode \o "_" \o options.format \o "_"
         \o ToString(options.width) \o "x" \o ToString(options.height)

(***************************************************************************)
(* URLs and proxy options.                                                 *)
(***************************************************************************)
SERVICE_URL == "https://images.ecency.com"

\* A URL: its origin, the first segment of its path, the rest of the path.
Url(origin, first, rest) == [origin |-> origin, first |-> first, rest |-> rest]
UrlString(url) == url.origin \o "/" \o url.first \o "/" \o url.rest

\* The URL an upload answers with.
UploadUrl(data, filename) == Url(SERVICE_URL, UploadKey(ImageHash(data)), filename)

\* config default_avatar, default_cover: uploads of this service.
DefaultAvatar == Url(SERVICE_URL, "Ddflt", "avatar.png")
DefaultCover  == Url(SERVICE_URL, "Ddflt", "cover.png")

ExternalUrl == Url("https://example.com", "img", "x.jpg")

\* The path segments that begin with 'D'.
DSegments == {"D" \o b : b \in Blobs \cup {"dflt"}}

\* SERVICE_URL.origin === url.origin && url.pathname[1] === 'D'
OrigIsUpload(url) == url.origin = SERVICE_URL /\ url.first \in DSegments

\* proxyHandler's key for the original: url.pathname.slice(1).split('/')[0],
\* or 'U' + the multihash of the URL's sha1.
ProxyOrigKey(url) ==
    IF OrigIsUpload(url) THEN url.first ELSE "U" \o UrlString(url)

\* getUrlHashKey: 'U' + the hex sha1 of the URL.
getUrlHashKey(input) == "Ux" \o input

\* width and height 0 stand for undefined.
ProxyOptions(width, height, mode, format, ignorecache, invalidate, refetch) ==
    [width |-> width, height |-> height, mode |-> mode, format |-> format,
     ignorecache |-> ignorecache, invalidate |-> invalidate, refetch |-> refetch]

\* enum ScalingMode { Cover, Fit } and enum OutputFormat { Match, JPEG, PNG,
\* WEBP }, by the names of their members. The handlers also use
\* OutputFormat.AVIF, written "AVIF" here, which the enum does not declare.
ScalingMode == {"Cover", "Fit"}
OutputFormat == {"Match", "JPEG", "PNG", "WEBP"}

\* ScalingMode[options.mode], OutputFormat[options.format] inside join('_'):
\* the member's name, and nothing for a value the enum has no member for.
EnumName(enum, value) == IF value \in enum THEN value ELSE ""

getImageKey(origKey, options) ==
    IF options.mode = "Fit" /\ options.format = "Match"
    THEN origKey \o "_" \o ToString(options.width) \o "x" \o ToString(options.height)
    ELSE origKey \o "_" \o EnumName(ScalingMode, options.mode)
         \o "_" \o EnumName(OutputFormat, options.format)
         \o (IF options.width # 0 THEN "_" \o ToString(options.width) ELSE "")
         \o (IF options.height # 0 THEN "_" \o ToString(options.height) ELSE "")

(***************************************************************************)
(* HTTP fetches. What the network answers is not the program's to decide:  *)
(* a request's `world` gives the answer of every candidate it may ask.     *)
(***************************************************************************)
Res(statusCode, body) == [threw |-> FALSE, statusCode |-> statusCode, body |-> body]
Threw == [threw |-> TRUE, statusCode |-> 0, body |-> ""]

\* Math.floor(res.statusCode / 100) === 2 && Buffer.isBuffer(res.body)
Good(res) == ~res.threw /\ res.statusCode \div 100 = 2

\* The answers of the seven candidates of fetchImageWithFallbacks (the
\* original, images.hive.blog/0x0, steemitimages.com/0x0, ...) and of the
\* default image.
World(original, hive, others, def) ==
    [cands |-> <<original, hive, others, others, others, others, others>>,
     def   |-> def]

Fetched(threw, res, isFallback) == [threw |-> threw, res |-> res, isFallback |-> isFallback]

RECURSIVE FirstGood(_)
FirstGood(responses) ==
    IF responses = <<>> THEN Threw
    ELSE IF Good(Head(responses)) THEN Head(responses)
    ELSE FirstGood(Tail(responses))

\* The final fallback answering without marking its response.
AfterDefault_Unmarked(def) ==
    IF Good(def) THEN Fetched(FALSE, def, FALSE) ELSE Fetched(TRUE, Threw, FALSE)

\* The final fallback: the default image's response, or the error thrown.
AfterDefault(def) ==
    IF Good(def) THEN Fetched(FALSE, def, TRUE) ELSE Fetched(TRUE, Threw, FALSE)

\* fetchImageWithFallbacks: the candidates in order, then the default image.
\* `skipOriginal` is options.skipUrls = [urlString].
fetchImageWithFallbacks(world, skipOriginal) ==
    LET urls  == IF skipOriginal THEN Tail(world.cands) ELSE world.cands
        first == FirstGood(urls)
    IN  IF ~first.threw THEN Fetched(FALSE, first, FALSE)
        ELSE AfterDefault(world.def)

\* getSharpMetadataWithRetry: "ok" with isFallback, or the error thrown.
getSharpMetadataWithRetry(origData, world) ==
    IF SharpReads(origData) THEN [ok |-> TRUE, isFallback |-> FALSE]
    ELSE LET fallback == fetchImageWithFallbacks(world, TRUE)
         IN  IF fallback.threw \/ ~SharpReads(fallback.res.body)
             THEN [ok |-> FALSE, isFallback |-> FALSE]
             ELSE [ok |-> TRUE, isFallback |-> fallback.isFallback]

(***************************************************************************)
(* fetchImageWithFallbacks step by step: one action per request sent and   *)
(* per response received.                                                  *)
(***************************************************************************)
fallbackDomains ==
    << "", "https://images.hive.blog/0x0/", "https://steemitimages.com/0x0/",
       "https://wsrv.nl/?url=", "https://img.leopedia.io/0x0/",
       "https://images.hive.blog/p/", "https://steemitimages.com/p/" >>

\* domain.endsWith('/p/')
EndsWithP(domain) ==
    domain \in {"https://images.hive.blog/p/", "https://steemitimages.com/p/"}

\* buildFallbackUrls; `slot` is the position whose answer the world gives.
buildFallbackUrls(urlString, urlParams) ==
    [k \in 1..Len(fallbackDomains) |->
        LET domain == fallbackDomains[k]
        IN  [slot |-> k,
             url  |-> IF domain = "" THEN urlString
                      ELSE IF EndsWithP(domain) THEN domain \o urlParams
                      ELSE domain \o urlString]]

\* The candidates with skipUrls kept in.
Candidates_Unfiltered(urlString, urlParams, skipUrls) ==
    buildFallbackUrls(urlString, urlParams)

\* urls = buildFallbackUrls(...).filter(url => !skipUrls.includes(url))
Candidates(urlString, urlParams, skipUrls) ==
    SelectSeq(buildFallbackUrls(urlString, urlParams),
              LAMBDA c : c.url \notin skipUrls)

\* A call: its arguments, and what the network will answer.
FetchArgs(urlString, urlParams, defaultUrl, skipUrls, world) ==
    [urlString |-> urlString, urlParams |-> urlParams, defaultUrl |-> defaultUrl,
     skipUrls |-> skipUrls, world |-> world]

FetchCall(Calls) ==
    /\ fetch.pc = "idle"
    /\ \E c \in Calls :
          fetch' = [NoFetch EXCEPT
                       !.pc = "loop", !.urlString = c.urlString,
                       !.urlParams = c.urlParams, !.defaultUrl = c.defaultUrl,
                       !.skipUrls = c.skipUrls, !.world = c.world,
                       !.urls = Candidates(c.urlString, c.urlParams, c.skipUrls),
                       !.i = 1]
    /\ UNCHANGED <<up, uploadStore, proxyStore, limiter, now, stored, served, prev, last, passed, flights, blacklist, unwrap>>

\* const res = await fetchUrl(candidate, ...): the request goes out.
FetchSend ==
    /\ fetch.pc = "loop"
    /\ fetch.i <= Len(fetch.urls)
    /\ fetch' = [fetch EXCEPT !.pc = "await",
                              !.asked = Append(@, fetch.urls[fetch.i]),
                              !.outstanding = @ + 1]
    /\ UNCHANGED <<up, uploadStore, proxyStore, limiter, now, stored, served, prev, last, passed, flights, blacklist, unwrap>>

\* The candidate's response or error arrives.
FetchReceive ==
    /\ fetch.pc = "await"
    /\ LET res == fetch.world.cands[fetch.urls[fetch.i].slot]
       IN  fetch' = IF Good(res)
                    THEN [fetch EXCEPT !.pc = "returned", !.res = res,
                                       !.isFallback = FALSE, !.outstanding = @ - 1]
                    ELSE [fetch EXCEPT !.pc = "loop", !.i = @ + 1,
                                       !.outstanding = @ - 1]
    /\ UNCHANGED <<up, uploadStore, proxyStore, limiter, now, stored, served, prev, last, passed, flights, blacklist, unwrap>>

\* const def = await fetchUrl(defaultUrl, ...), after the loop has ended.
FetchSendDefault ==
    /\ fetch.pc = "loop"
    /\ fetch.i > Len(fetch.urls)
    /\ fetch' = [fetch EXCEPT !.pc = "awaitDefault",
                              !.asked = Append(@, [slot |-> 0, url |-> fetch.defaultUrl]),
                              !.outstanding = @ + 1]
    /\ UNCHANGED <<up, uploadStore, proxyStore, limiter, now, stored, served, prev, last, passed, flights, blacklist, unwrap>>

FetchReceiveDefault ==
    /\ fetch.pc = "awaitDefault"
    /\ LET result == AfterDefault(fetch.world.def)
       IN  fetch' = [fetch EXCEPT !.pc = IF result.threw THEN "threw" ELSE "returned",
                                  !.res = result.res,
                                  !.isFallback = result.isFallback,
                                  !.outstanding = @ - 1]
    /\ UNCHANGED <<up, uploadStore, proxyStore, limiter, now, stored, served, prev, last, passed, flights, blacklist, unwrap>>

\* The caller has the result.
FetchReturn ==
    /\ fetch.pc \in {"returned", "threw"}
    /\ fetch' = NoFetch
    /\ UNCHANGED <<up, uploadStore, proxyStore, limiter, now, stored, served, prev, last, passed, flights, blacklist, unwrap>>

\* Which operations of the blob stores succeed during a request.
IO(exists, read, write, remove) ==
    [exists |-> exists, read |-> read, write |-> write, remove |-> remove]

\* storeWrite / storeRemove inside a try whose catch only logs.
\* A variant in which a failed write leaves an empty entry behind.
TryPut_Partial(store, key, data, io) == Put(store, key, IF io.write THEN data ELSE "")
TryPut(store, key, data, io) == IF io.write THEN Put(store, key, data) ELSE store
TryRemove(store, key, io) == IF io.remove THEN Remove(store, key) ELSE store

\* The values the handlers give the Cache-Control header.
TenMinutes == "public,max-age=600"
Immutable == "public,max-age=31536000,immutable"
OneHour == "public,max-age=3600,stale-while-revalidate=86400"
NoCache == "no-cache,must-revalidate"

\* What a GET handler leaves behind: the two stores, and its response.
\* `cache` is the Cache-Control header, "" while the handler has not set it.
Outcome(us, ps, status, body) ==
    [uploadStore |-> us, proxyStore |-> ps, status |-> status, body |-> body,
     cache |-> "", etag |-> "", vary |-> FALSE]

\* ctx.set('Cache-Control', value) on a response that is sent.
SetCache(outcome, value) == [outcome EXCEPT !.cache = value]

\* ctx.set('Vary', 'Accept') and ctx.set('Cache-Control', value): the block
\* that ends a handler.
SendFinal(outcome, value) == [outcome EXCEPT !.cache = value, !.vary = TRUE]

\* ctx.set('ETag', etag(key)) before the handler's work; `etag` is the key
\* the tag was computed from.
DefaultETag(outcome, key) ==
    IF outcome.etag = "" /\ outcome.status \in {"200", "304"}
    THEN [outcome EXCEPT !.etag = key] ELSE outcome

\* The header set before the handler's work stays on what it sends unless a
\* later ctx.set replaces it; the response of a thrown error is written by
\* the error middleware.
DefaultCache(outcome, value) ==
    IF outcome.cache = "" /\ outcome.status \in {"200", "304"}
    THEN SetCache(outcome, value) ELSE outcome

(***************************************************************************)
(* GET /p/:url (src/proxy.ts), from the proxied URL as decoded.            *)
(***************************************************************************)
\* origStore is uploadStore when the original is an upload of this service.
OrigStore(origIsUpload, us, ps) == IF origIsUpload THEN us ELSE ps

\* The stores after a best-effort write or remove on origStore.
Stores(us, ps) == [us |-> us, ps |-> ps]
WriteOrig(origIsUpload, st, key, data, io) ==
    IF origIsUpload THEN Stores(TryPut(st.us, key, data, io), st.ps)
    ELSE Stores(st.us, TryPut(st.ps, key, data, io))
RemoveOrig(origIsUpload, st, key, io) ==
    IF origIsUpload THEN Stores(TryRemove(st.us, key, io), st.ps)
    ELSE Stores(st.us, TryRemove(st.ps, key, io))

serveOrBuildFallbackImage(st, fallbackBuffer, options, io) ==
    LET fallbackKey == getImageKey("default-avatar", options)
    IN  DefaultETag(
        IF ~io.exists THEN Outcome(st.us, st.ps, "500", "")
        ELSE IF Exists(st.ps, fallbackKey)
        THEN SetCache(Outcome(st.us, st.ps, "200", st.ps[fallbackKey]), TenMinutes)
        ELSE IF ~SharpReads(fallbackBuffer) THEN Outcome(st.us, st.ps, "500", "")
        ELSE LET rv == Converted(fallbackBuffer, options)
             IN  SetCache(Outcome(st.us, TryPut(st.ps, fallbackKey, rv, io), "200", rv),
                          TenMinutes),
        fallbackKey)

\* fetchUrl(DefaultAvatar) and serveOrBuildFallbackImage.
DefaultResponse(st, options, world, io) ==
    IF world.def.threw THEN Outcome(st.us, st.ps, "500", "")
    ELSE serveOrBuildFallbackImage(st, world.def.body, options, io)

PassThrough(contentType, options) ==
    \/ /\ contentType \in {<<"image", "gif">>, <<"video", "mp4">>, <<"image", "apng">>}
       /\ options.format \in {"Match", "WEBP", "AVIF"}
       /\ options.mode = "Fit"
    \/ contentType[1] = "video"

\* proxyHandler from `let rv` to the response.
ProxyConvert(origIsUpload, origKey, imageKey, st, origData, isDefaultImage, origFromCache, options, world, io) ==
    IF PassThrough(MimeMagic(origData), options)
    THEN SendFinal(Outcome(st.us, st.ps, "200", origData),
                  IF isDefaultImage THEN TenMinutes ELSE Immutable)
    ELSE
      LET metaResult == getSharpMetadataWithRetry(origData, world)
          purged     == RemoveOrig(origIsUpload, st, origKey, io)
      IN  IF ~metaResult.ok \/ ~SharpReads(origData)
          THEN IF origFromCache
               THEN DefaultResponse(purged, options, world, io)
               ELSE Outcome(st.us, st.ps, "InvalidImage", "")
          ELSE LET rv == Converted(origData, options)
               IN  IF ~(isDefaultImage \/ metaResult.isFallback)
                   THEN SendFinal(Outcome(st.us, TryPut(st.ps, imageKey, rv, io), "200", rv),
                                  Immutable)
                   ELSE SendFinal(Outcome(st.us, st.ps, "200", rv), TenMinutes)

Bypass(options) == options.ignorecache \/ options.invalidate \/ options.refetch

proxyHandler(proxied, blacklisted, options, fresh, world, io, us, ps) ==
    LET url          == IF blacklisted THEN DefaultAvatar ELSE proxied
        origIsUpload == OrigIsUpload(url)
        origKey      == ProxyOrigKey(url)
        imageKey     == getImageKey(origKey, options)
        \* if (options.refetch) { ... }
        st1 == IF ~options.refetch THEN Stores(us, ps)
               ELSE IF origIsUpload THEN Stores(us, TryRemove(ps, imageKey, io))
               ELSE Stores(us, TryRemove(TryRemove(ps, imageKey, io), origKey, io))
        origStore == OrigStore(origIsUpload, st1.us, st1.ps)
        fetched   == fetchImageWithFallbacks(world, FALSE)
        fits      == ByteLength(fetched.res.body) <= MAX_IMAGE_SIZE
    IN  DefaultETag(DefaultCache(
        IF fresh THEN Outcome(us, ps, "304", "")
        ELSE IF ~io.exists THEN Outcome(st1.us, st1.ps, "500", "")
        ELSE IF Exists(st1.ps, imageKey) /\ ~Bypass(options)
        THEN IF io.read
             THEN SetCache(Outcome(st1.us, st1.ps, "200", st1.ps[imageKey]), Immutable)
             ELSE Outcome(st1.us, TryRemove(st1.ps, imageKey, io), "500", "")
        ELSE IF Exists(origStore, origKey) /\ ~Bypass(options)
        THEN IF io.read /\ MimeMagic(origStore[origKey]) \in AcceptedContentTypes
             THEN ProxyConvert(origIsUpload, origKey, imageKey, st1,
                               origStore[origKey], blacklisted, TRUE,
                               options, world, io)
             ELSE
               \* the catch block: purge (when the type was invalid), re-fetch
               LET st2 == IF io.read THEN RemoveOrig(origIsUpload, st1, origKey, io)
                          ELSE st1
                   isDefaultImage == blacklisted \/ fetched.isFallback
                   st3 == IF fits /\ ~isDefaultImage
                          THEN WriteOrig(origIsUpload, st2, origKey, fetched.res.body, io)
                          ELSE st2
               IN  IF fetched.threw THEN Outcome(st2.us, st2.ps, "500", "")
                   ELSE ProxyConvert(origIsUpload, origKey, imageKey, st3,
                                     fetched.res.body, isDefaultImage, TRUE,
                                     options, world, io)
        ELSE
          LET isDefaultImage == fetched.isFallback
              st2 == IF fits /\ ~isDefaultImage
                     THEN WriteOrig(origIsUpload, st1, origKey, fetched.res.body, io)
                     ELSE st1
          IN  IF fetched.threw THEN Outcome(st1.us, st1.ps, "InvalidImage", "")
              ELSE IF MimeMagic(fetched.res.body) \notin AcceptedContentTypes
              THEN DefaultResponse(st1, options, world, io)
              ELSE ProxyConvert(origIsUpload, origKey, imageKey, st2,
                                fetched.res.body, isDefaultImage, FALSE,
                                options, world, io),
        TenMinutes), imageKey)

(***************************************************************************)
(* GET /:hash/:filename (src/serve.ts).                                    *)
(***************************************************************************)
DEFAULT_AVATAR_HASH == "Ddflt"

\* The handler answering with the bytes a mirror supplied.
serveHandler_FromMirror(hash, blacklisted, world, io, us, ps) ==
    LET _hash == IF blacklisted THEN DEFAULT_AVATAR_HASH ELSE hash
        hive  == world.cands[2]
        res   == IF Good(hive) THEN hive ELSE world.cands[3]
    IN  IF Exists(us, _hash) /\ io.read
        THEN SetCache(Outcome(us, ps, "200", us[_hash]), Immutable)
        ELSE IF hive.threw \/ res.threw THEN Outcome(us, ps, "404", "")
        ELSE IF ByteLength(res.body) <= MAX_IMAGE_SIZE
        THEN SetCache(Outcome(TryPut(us, hash, res.body, io), ps, "200", res.body),
                      Immutable)
        ELSE Outcome(us, ps, "404", "")

serveHandler(hash, blacklisted, world, io, us, ps) ==
    LET _hash == IF blacklisted THEN DEFAULT_AVATAR_HASH ELSE hash
        hive  == world.cands[2]
        res   == IF Good(hive) THEN hive ELSE world.cands[3]
    IN  IF Exists(us, _hash) /\ io.read
        THEN SetCache(Outcome(us, ps, "200", us[_hash]), Immutable)
        ELSE IF hive.threw \/ res.threw THEN Outcome(us, ps, "404", "")
        ELSE IF ByteLength(res.body) <= MAX_IMAGE_SIZE
        THEN Outcome(TryPut(us, hash, res.body, io), ps, "404", "")
        ELSE Outcome(us, ps, "404", "")

(***************************************************************************)
(* GET /u/:username/avatar/:size? and GET /u/:username/cover               *)
(* (src/avatar.ts, src/cover.ts, src/image-resizer.ts).                    *)
(***************************************************************************)
AVATAR_SIZE == 256
COVER_WIDTH == 1344
COVER_HEIGHT == 240

\* profile.metadata.profile.profile_image / cover_image; an empty origin
\* stands for a value that is missing or does not start with 'http'.
NoImage == Url("", "", "")
ProfileImage ==
    [foo |-> UploadUrl("jpgA", "a.j"), bar |-> ExternalUrl, low |-> NoImage,
     app |-> UploadUrl("text", "a.j"), bad |-> NoImage]
CoverImage ==
    [foo |-> UploadUrl("text", "a.j"), bar |-> NoImage, low |-> ExternalUrl,
     app |-> UploadUrl("jpgA", "a.j"), bad |-> NoImage]

AvatarOptions(size, preferWebP) ==
    ProxyOptions(IF size # 0 THEN size ELSE AVATAR_SIZE,
                 IF size # 0 THEN size ELSE AVATAR_SIZE,
                 "Cover", IF preferWebP THEN "WEBP" ELSE "Match",
                 FALSE, FALSE, FALSE)

CoverOptions(preferAvif, preferWebP) ==
    ProxyOptions(COVER_WIDTH, COVER_HEIGHT, "Fit",
                 IF preferAvif THEN "AVIF"
                 ELSE IF preferWebP THEN "WEBP" ELSE "Match",
                 FALSE, FALSE, FALSE)

AvatarPassThrough(contentType, options) ==
    contentType = <<"image", "gif">> /\ options.format = "Match" /\ options.mode = "Cover"

CoverPassThrough(contentType, options) ==
    /\ contentType = <<"image", "gif">>
    /\ options.format \in {"Match", "WEBP", "AVIF"}
    /\ options.mode = "Fit"

\* handleAvatar / handleCover from the profile's image URL on: the two
\* handlers differ in the image, the options and the pass-through test.
ProfileImageHandler(handler, url, options, shouldBypassCache, fresh, world, io, us, ps) ==
    LET origIsUpload == OrigIsUpload(url)
        origKey  == IF origIsUpload THEN url.first ELSE getUrlHashKey(UrlString(url))
        imageKey == getImageKey(origKey, options)
        cached   == Exists(OrigStore(origIsUpload, us, ps), origKey) /\ ~shouldBypassCache
        ps1      == IF shouldBypassCache THEN Remove(ps, imageKey) ELSE ps
        fetched  == fetchImageWithFallbacks(world, FALSE)
        st2      == IF cached \/ ByteLength(fetched.res.body) > MAX_IMAGE_SIZE
                    THEN Stores(us, ps1)
                    ELSE WriteOrig(origIsUpload, Stores(us, ps1), origKey,
                                   fetched.res.body, io)
        origData == IF cached THEN OrigStore(origIsUpload, us, ps)[origKey]
                    ELSE fetched.res.body
        resized  == getSharpMetadataWithRetry(origData, world)
        \* isFinalFallback = isFetchFallback || isResizeFallback
        FinalCache(isResizeFallback) ==
            IF shouldBypassCache THEN NoCache
            ELSE IF (~cached /\ fetched.isFallback) \/ isResizeFallback
            THEN TenMinutes ELSE OneHour
    IN  DefaultETag(
        IF fresh /\ ~shouldBypassCache THEN Outcome(us, ps, "304", "")
        ELSE IF ~io.exists THEN Outcome(us, ps, "500", "")
        ELSE IF Exists(ps, imageKey) /\ ~shouldBypassCache
        THEN SetCache(Outcome(us, ps, IF io.read THEN "200" ELSE "500",
                              IF io.read THEN ps[imageKey] ELSE ""),
                      IF io.read THEN OneHour ELSE "")
        ELSE IF shouldBypassCache /\ Exists(ps, imageKey) /\ ~io.remove
        THEN Outcome(us, ps, "500", "")
        ELSE IF cached /\ ~io.read THEN Outcome(us, ps1, "500", "")
        ELSE IF ~cached /\ fetched.threw THEN Outcome(us, ps1, "InvalidImage", "")
        ELSE IF IF handler = "avatar"
                THEN AvatarPassThrough(MimeMagic(origData), options)
                ELSE CoverPassThrough(MimeMagic(origData), options)
        THEN SendFinal(Outcome(st2.us, st2.ps, "200", origData), FinalCache(FALSE))
        ELSE IF ~resized.ok THEN Outcome(st2.us, st2.ps, "InvalidImage", "")
        ELSE IF ~SharpReads(origData) THEN Outcome(st2.us, st2.ps, "500", "")
        ELSE LET rv == Converted(origData, options)
             IN  SendFinal(Outcome(st2.us, TryPut(st2.ps, imageKey, rv, io), "200", rv),
                           FinalCache(resized.isFallback)),
        imageKey)

handleAvatar(username, size, preferWebP, shouldBypassCache, fresh, rpcOk, world, io, us, ps) ==
    LET profile == getProfile(ToLowerCase(username), rpcOk)
        image   == ProfileImage[profile.name]
        options == AvatarOptions(size, preferWebP)
    IN  IF ~profile.found THEN Outcome(us, ps, "NoSuchAccount", "")
        ELSE ProfileImageHandler("avatar",
                 IF image.origin # "" THEN image ELSE DefaultAvatar, options,
                 shouldBypassCache, fresh, world, io, us, ps)

handleCover(username, preferAvif, preferWebP, shouldBypassCache, fresh, rpcOk, world, io, us, ps) ==
    LET profile == getProfile(ToLowerCase(username), rpcOk)
        image   == CoverImage[profile.name]
        options == CoverOptions(preferAvif, preferWebP)
    IN  IF ~profile.found THEN Outcome(us, ps, "NoSuchAccount", "")
        ELSE ProfileImageHandler("cover",
                 IF image.origin # "" THEN image ELSE DefaultCover, options,
                 shouldBypassCache, fresh, world, io, us, ps)

(***************************************************************************)
(* The GET handlers as steps. MaxGets bounds how many are answered.        *)
(***************************************************************************)
MaxGets == 1

Answer(outcome) ==
    /\ served < MaxGets
    /\ served' = served + 1
    /\ uploadStore' = outcome.uploadStore
    /\ proxyStore' = outcome.proxyStore
    /\ UNCHANGED <<up, limiter, now, stored, prev, last, passed, fetch, flights, blacklist, unwrap>>

\* The parameters of a request and what its surroundings do during it.
ServeRequest(hash, blacklisted, world, io) ==
    [hash |-> hash, blacklisted |-> blacklisted, world |-> world, io |-> io]

ProxyRequest(url, blacklisted, options, fresh, world, io) ==
    [url |-> url, blacklisted |-> blacklisted, options |-> options,
     fresh |-> fresh, world |-> world, io |-> io]

ProfileRequest(username, preferWebP, shouldBypassCache, fresh, rpcOk, world, io) ==
    [username |-> username, preferWebP |-> preferWebP,
     shouldBypassCache |-> shouldBypassCache, fresh |-> fresh, rpcOk |-> rpcOk,
     world |-> world, io |-> io]

Serve(Requests) ==
    \E q \in Requests :
        Answer(serveHandler(q.hash, q.blacklisted, q.world, q.io,
                            uploadStore, proxyStore))

Proxy(Requests) ==
    \E q \in Requests :
        Answer(proxyHandler(q.url, q.blacklisted, q.options, q.fresh, q.world,
                            q.io, uploadStore, proxyStore))

Avatar(Requests) ==
    \E q \in Requests :
        Answer(handleAvatar(q.username, 0, q.preferWebP, q.shouldBypassCache,
                            q.fresh, q.rpcOk, q.world, q.io,
                            uploadStore, proxyStore))

Cover(Requests) ==
    \E q \in Requests :
        Answer(handleCover(q.username, FALSE, q.preferWebP, q.shouldBypassCache,
                           q.fresh, q.rpcOk, q.world, q.io,
                           uploadStore, proxyStore))

\* avatar.ts, cover.ts: shouldBypassCache = !!(ignorecache || invalidate);
\* no other query parameter is read.
shouldBypassCache(query) == query.ignorecache \/ query.invalidate

\* The image a profile handler works on: the profile's, or the default.
ImageOf(images, username, default) ==
    LET image == images[ToLowerCase(username)]
    IN  IF image.origin # "" THEN image ELSE default

\* The GET handlers as steps that keep the request and its response.
\* MaxAsks bounds how many are answered.
MaxAsks == 2

Record(handler, url, q, outcome) ==
    /\ served < MaxAsks
    /\ served' = served + 1
    /\ uploadStore' = outcome.uploadStore
    /\ proxyStore' = outcome.proxyStore
    /\ last' = [set |-> TRUE, handler |-> handler, url |-> url,
                blacklisted |-> q.blacklisted, options |-> q.options,
                fresh |-> q.fresh, world |-> q.world, io |-> q.io,
                before |-> Stores(uploadStore, proxyStore),
                status |-> outcome.status, body |-> outcome.body,
                cache |-> outcome.cache, etag |-> outcome.etag,
                vary |-> outcome.vary, redirect |-> [set |-> FALSE]]
    /\ UNCHANGED <<up, limiter, now, stored, prev, passed, fetch, flights, blacklist, unwrap>>

ProxyGet(Requests) ==
    \E q \in Requests :
        Record("proxy", q.url, q,
               proxyHandler(q.url, q.blacklisted, q.options, q.fresh, q.world,
                            q.io, uploadStore, proxyStore))

\* The URL a /p/ request names, as its parameter spells it: the URL itself
\* ("plain"), a /p/ URL of this service around it ("proxied"), the service's
\* /0x0/ prefix before it ("prefixed"), or the URL with a domain or a path
\* that DOMAIN_REPLACEMENTS and PATH_REPLACEMENTS rewrite ("old").
Target(form, url) == [form |-> form, url |-> url]

\* while (url.origin === SERVICE_URL.origin && url.pathname.slice(0, 2) === '/p')
Unwrapped(target) ==
    IF target.form = "proxied" THEN Target("plain", target.url) ELSE target

\* imageBlacklist.includes(urlString) || isEmptyImageUrl(urlString), on
\* the URL as it is spelt after the unwrapping. The list holds the URLs of
\* `listed` in their plain spelling.
Blacklisted(target, listed) == target.form = "plain" /\ target.url \in listed

\* The extraction after startsWithEmptyImagePrefix, then applyUrlReplacements.
Canonical(target) == target.url

\* What the upstreams answer once the URL is the default avatar's: the
\* default image's host, and no mirror that has it.
AsDefault(world) == World(world.def, Res(404, "page"), Res(404, "page"), world.def)

\* GET /p/:url for a target in any spelling.
ProxyTargetGet(Targets, Requests, listed) ==
    \E t \in Targets, q \in Requests :
        LET target == Unwrapped(t)
            hit    == Blacklisted(target, listed)
            world  == IF hit THEN AsDefault(q.world) ELSE q.world
        IN  Record("proxy", Canonical(target),
                   [q EXCEPT !.blacklisted = hit, !.world = world],
                   proxyHandler(Canonical(target), hit, q.options, q.fresh, world,
                                q.io, uploadStore, proxyStore))

\* GET /:hash/a.j
ServeGet(Requests) ==
    \E q \in Requests :
        Record("serve", Url(SERVICE_URL, q.hash, "a.j"),
               ProxyRequest(Url(SERVICE_URL, q.hash, "a.j"), q.blacklisted,
                            ProxyOptions(0, 0, "Fit", "Match", FALSE, FALSE, FALSE),
                            FALSE, q.world, q.io),
               serveHandler(q.hash, q.blacklisted, q.world, q.io,
                            uploadStore, proxyStore))

\* GET /u/:username/avatar with the query of q.options.
AvatarGet(Names, Requests) ==
    \E n \in Names, q \in Requests :
        Record("avatar", ImageOf(ProfileImage, n, DefaultAvatar), q,
               handleAvatar(n, 0, FALSE, shouldBypassCache(q.options), q.fresh,
                            TRUE, q.world, q.io, uploadStore, proxyStore))

\* GET /u/:username/cover with the query of q.options.
CoverGet(Names, Requests) ==
    \E n \in Names, q \in Requests :
        Record("cover", ImageOf(CoverImage, n, DefaultCover), q,
               handleCover(n, FALSE, FALSE, shouldBypassCache(q.options), q.fresh,
                           TRUE, q.world, q.io, uploadStore, proxyStore))

\* GET /:hash/:filename with imageBlacklist holding the URLs of `listed`.
ServeFileGet(Requests, Filenames, listed) ==
    \E q \in Requests, filename \in Filenames :
        LET urlString == Url(SERVICE_URL, q.hash, filename)
            hit       == urlString \in listed
        IN  Record("serve", urlString,
                   ProxyRequest(urlString, hit,
                                ProxyOptions(0, 0, "Fit", "Match", FALSE, FALSE, FALSE),
                                FALSE, q.world, q.io),
                   serveHandler(q.hash, hit, q.world, q.io, uploadStore, proxyStore))

(***************************************************************************)
(* The redirecting routes: GET /:width x :height/:url (legacy-proxy.ts)    *)
(* and the routes under /webp/.                                            *)
(***************************************************************************)
\* The text of a URL as it stands in a path or in a base58 payload: `text`
\* without the slashes that end it, and how many slashes end it.
Raw(text, slashes) == [text |-> text, slashes |-> slashes]

\* value.replace(/\/+$/, '')
TrimSlashes(raw) == Raw(raw.text, 0)

\* The texts new URL() accepts, and those of them that are an origin alone.
AbsoluteUrls == {"https://example.com", "https://example.com/img/x.jpg"}
Origins == {"https://example.com"}

\* new URL(value) and its toString(): the path of a bare origin is "/".
NewURL(raw) ==
    [threw |-> raw.text \notin AbsoluteUrls,
     href  |-> IF raw.text \in Origins /\ raw.slashes = 0 THEN Raw(raw.text, 1)
               ELSE raw]

DEFAULT_FALLBACK_IMAGE_URL == Raw("https://images.ecency.com/DQmY4/1x1_000000.png", 0)

\* base58Enc / base58Dec: decoding gives back what was encoded, and throws
\* for a value that is not base58.
base58Enc(value) == [b58 |-> TRUE, of |-> value]
NotBase58 == [b58 |-> FALSE, of |-> Raw("", 0)]
base58Dec(value) == [threw |-> ~value.b58, text |-> value.of]

\* The :url parameter of /p/:url, and ctx.params.url.replace(/\.(webp|png)$/, '').
UrlParam(encoded, ext) == [encoded |-> encoded, ext |-> ext]
\* An extension the pattern leaves in place is no base58.
CleanUrl(param) == IF param.ext \in {"", ".webp", ".png"} THEN param.encoded ELSE NotBase58

parseProxiedUrl(value) ==
    LET decoded == base58Dec(value)
        url     == NewURL(TrimSlashes(decoded.text))
    IN  IF decoded.threw \/ url.threw THEN DEFAULT_FALLBACK_IMAGE_URL ELSE url.href

\* A number as its decimal digits.
DigitChar == <<"0", "1", "2", "3", "4", "5", "6", "7", "8", "9">>

RECURSIVE DigitsOf(_)
DigitsOf(n) ==
    IF n < 10 THEN <<DigitChar[n + 1]>>
    ELSE Append(DigitsOf(n \div 10), DigitChar[(n % 10) + 1])

RECURSIVE StripZeros(_)
StripZeros(digits) ==
    IF Len(digits) > 1 /\ digits[1] = "0" THEN StripZeros(Tail(digits)) ELSE digits

\* From this many digits on, String(number) is in exponent notation.
ExponentFrom == 22

\* String(Number.parseInt(digits)) for the digits of the route's \d+: the
\* number in decimal below 10^21, as <digit>e+<exponent> from there on (for
\* a number that is one digit followed by zeros).
NumberString(digits) ==
    LET canon == StripZeros(digits)
    IN  IF Len(canon) < ExponentFrom THEN canon
        ELSE <<canon[1], "e", "+">> \o DigitsOf(Len(canon) - 1)

\* width > 0
Positive(digits) == StripZeros(digits) # <<"0">>

\* ctx.redirect(url) after ctx.status: a status that is no redirect status
\* (404 when none was set) becomes 302.
RedirectStatuses == {300, 301, 302, 303, 305, 307, 308}
NotFound == 404
Found == 302
MovedPermanently == 301

redirect(status, url) ==
    [status |-> IF status \in RedirectStatuses THEN status ELSE Found,
     location |-> url, error |-> ""]

Thrown(code) == [status |-> 0, location |-> [route |-> ""], error |-> code]

\* The query of a /p/ URL; <<>> stands for a parameter that is absent.
Query(width, height, mode, format) ==
    [width |-> width, height |-> height, mode |-> mode, format |-> format]

LegacyRequest(width, height, url) == [width |-> width, height |-> height, url |-> url]

NoUrlGiven == Raw("", 0)

legacyProxyHandler(q) ==
    LET url == IF q.url # NoUrlGiven THEN NewURL(TrimSlashes(q.url))
               ELSE [threw |-> FALSE, href |-> DEFAULT_FALLBACK_IMAGE_URL]
        qs  == Query(IF Positive(q.width) THEN NumberString(q.width) ELSE <<>>,
                     IF Positive(q.height) THEN NumberString(q.height) ELSE <<>>,
                     "fit", "match")
    IN  IF url.threw THEN Thrown("InvalidProxyUrl")
        ELSE redirect(MovedPermanently,
                      [route |-> "p", url |-> UrlParam(base58Enc(url.href), ".png"),
                       query |-> qs])

\* The path /:width x :height/:url, under /webp or not.
LegacyPath(webp, width, height, url) ==
    [route |-> "legacy", webp |-> webp, width |-> width, height |-> height, url |-> url]

legacyWProxyHandler(q) ==
    redirect(MovedPermanently,
             LegacyPath(FALSE, NumberString(q.width), NumberString(q.height), q.url))

\* The paths /u/:username/avatar/:size? and /u/:username/cover; size "" is
\* a path without it.
AvatarPath(webp, username, size) ==
    [route |-> "avatar", webp |-> webp, username |-> username, size |-> size]
CoverPath(webp, username) == [route |-> "cover", webp |-> webp, username |-> username]

avatarWHandler(username, size) == redirect(NotFound, AvatarPath(FALSE, username, size))

coverWHandler(username) == redirect(NotFound, CoverPath(FALSE, username))

\* parseOptions of proxy.ts on the query and the formats the Accept header
\* allows; width and height 0 stand for undefined.
OrUndefined(value) ==
    LET n == ParseInt(value) IN IF n.finite /\ n.val # 0 THEN n.val ELSE 0

parseOptions(query, avif, webp) ==
    LET mode   == CASE query.mode \in {"", "cover"} -> "Cover"
                    [] query.mode = "fit" -> "Fit"
                    [] OTHER -> "throw"
        format == CASE query.format \in {"", "match"} ->
                          IF avif THEN "AVIF" ELSE IF webp THEN "WEBP" ELSE "Match"
                    [] query.format \in {"jpeg", "jpg"} -> "JPEG"
                    [] query.format = "png" -> "PNG"
                    [] query.format = "webp" -> "WEBP"
                    [] query.format = "avif" -> "AVIF"
                    [] OTHER -> "Match"
    IN  [threw |-> mode = "throw",
         options |-> ProxyOptions(OrUndefined(query.width), OrUndefined(query.height),
                                  mode, format, FALSE, FALSE, FALSE)]

\* A redirecting route answered: the request's path and the response.
Redirected(route, path, response) ==
    /\ served < MaxAsks
    /\ served' = served + 1
    /\ last' = [NoLast EXCEPT !.set = TRUE, !.handler = route,
                               !.status = IF response.error # "" THEN response.error
                                          ELSE ToString(response.status),
                               !.redirect = [set |-> TRUE, path |-> path,
                                             response |-> response,
                                             followed |-> [set |-> FALSE]]]
    /\ UNCHANGED <<up, uploadStore, proxyStore, limiter, now, stored, prev, passed, fetch, flights, blacklist, unwrap>>

LegacyGet(Requests) ==
    \E q \in Requests :
        Redirected("legacy", LegacyPath(FALSE, q.width, q.height, q.url),
                   legacyProxyHandler(q))

LegacyWGet(Requests) ==
    \E q \in Requests :
        Redirected("webp", LegacyPath(TRUE, q.width, q.height, q.url),
                   legacyWProxyHandler(q))

AvatarWGet(Names, Sizes) ==
    \E n \in Names, z \in Sizes :
        Redirected("webp", AvatarPath(TRUE, n, z), avatarWHandler(n, z))

CoverWGet(Names) ==
    \E n \in Names : Redirected("webp", CoverPath(TRUE, n), coverWHandler(n))

\* The client follows a redirect to /p/: what proxyHandler resolves from the
\* Location, for the formats its Accept header allows.
FollowToProxy ==
    /\ last.redirect.set
    /\ ~last.redirect.followed.set
    /\ last.redirect.response.location.route = "p"
    /\ \E avif \in BOOLEAN, webp \in BOOLEAN :
          LET location == last.redirect.response.location
              parsed   == parseOptions(location.query, avif, webp)
          IN  last' = [last EXCEPT !.redirect.followed =
                          [set |-> TRUE, threw |-> parsed.threw,
                           url |-> parseProxiedUrl(CleanUrl(location.url)),
                           options |-> parsed.options]]
    /\ UNCHANGED <<up, uploadStore, proxyStore, limiter, now, stored, served, prev, passed, fetch, flights, blacklist, unwrap>>

(***************************************************************************)
(* proxyHandler for concurrent requests of one URL with the same options,  *)
(* one action per stretch between two awaits on a store or on upstream.    *)
(* The upstream answers each fetch with an image of its own choosing.      *)
(***************************************************************************)
FlightUrl == ExternalUrl
FlightOptions == ProxyOptions(512, 0, "Fit", "Match", FALSE, FALSE, FALSE)
FlightOrigKey == ProxyOrigKey(FlightUrl)
FlightImageKey == getImageKey(FlightOrigKey, FlightOptions)
UpstreamBytes == {"jpgA", "jpgB"}

FlightFrame == UNCHANGED <<up, uploadStore, limiter, now, stored, served, prev, last, passed, fetch, blacklist, unwrap>>

\* await storeExists(proxyStore, imageKey): a stored conversion is streamed.
FlightLookImage ==
    \E i \in 1 .. MaxFlights :
        /\ flights[i].pc = "idle"
        /\ flights' = [flights EXCEPT ![i] =
              IF Exists(proxyStore, FlightImageKey)
              THEN [@ EXCEPT !.pc = "done", !.body = proxyStore[FlightImageKey]]
              ELSE [@ EXCEPT !.pc = "missed"]]
        /\ UNCHANGED proxyStore
        /\ FlightFrame

\* await storeExists(origStore, origKey) and the reading of a stored original.
FlightLookOrig ==
    \E i \in 1 .. MaxFlights :
        /\ flights[i].pc = "missed"
        /\ flights' = [flights EXCEPT ![i] =
              IF Exists(proxyStore, FlightOrigKey)
              THEN [@ EXCEPT !.pc = "have", !.origData = proxyStore[FlightOrigKey],
                             !.source = "store"]
              ELSE [@ EXCEPT !.pc = "fetching"]]
        /\ UNCHANGED proxyStore
        /\ FlightFrame

\* The handler going from the fetch straight to the conversion.
FlightFetch_NoOriginal ==
    \E i \in 1 .. MaxFlights, data \in UpstreamBytes :
        /\ flights[i].pc = "fetching"
        /\ flights' = [flights EXCEPT ![i] =
              [@ EXCEPT !.pc = "have", !.origData = data, !.source = "fetch"]]
        /\ UNCHANGED proxyStore
        /\ FlightFrame

\* await fetchImageWithFallbacks(...): the first candidate answers.
FlightFetch ==
    \E i \in 1 .. MaxFlights, data \in UpstreamBytes :
        /\ flights[i].pc = "fetching"
        /\ flights' = [flights EXCEPT ![i] =
              [@ EXCEPT !.pc = "fetched", !.origData = data, !.source = "fetch"]]
        /\ UNCHANGED proxyStore
        /\ FlightFrame

\* try { await storeWrite(origStore, origKey, origData) } catch { log }
\* `orig` and `image` record the writes a request attempted.
FlightStoreOrig ==
    \E i \in 1 .. MaxFlights, storeOk \in BOOLEAN :
        /\ flights[i].pc = "fetched"
        /\ proxyStore' = IF storeOk THEN Put(proxyStore, FlightOrigKey, flights[i].origData)
                         ELSE proxyStore
        /\ flights' = [flights EXCEPT ![i] =
              [@ EXCEPT !.pc = "have", !.orig = IF storeOk THEN "written" ELSE "failed"]]
        /\ FlightFrame

\* rv = await image.toBuffer()
FlightConvert ==
    \E i \in 1 .. MaxFlights :
        /\ flights[i].pc = "have"
        /\ flights' = [flights EXCEPT ![i] =
              [@ EXCEPT !.pc = "converted",
                        !.body = Converted(flights[i].origData, FlightOptions)]]
        /\ UNCHANGED proxyStore
        /\ FlightFrame

\* try { await storeWrite(proxyStore, imageKey, rv) } catch { log } and
\* the response.
FlightStoreImage ==
    \E i \in 1 .. MaxFlights, storeOk \in BOOLEAN :
        /\ flights[i].pc = "converted"
        /\ proxyStore' = IF storeOk THEN Put(proxyStore, FlightImageKey, flights[i].body)
                         ELSE proxyStore
        /\ flights' = [flights EXCEPT ![i] =
              [@ EXCEPT !.pc = "done", !.image = IF storeOk THEN "written" ELSE "failed"]]
        /\ FlightFrame

(***************************************************************************)
(* The blacklist service (src/blacklist-service.ts). Time is counted in    *)
(* units of which CACHE_TTL is two.                                        *)
(***************************************************************************)
CACHE_TTL == 2
MAX_FAIL_COUNT == 5
MaxClock == 16
MaxStreak == 6

BlacklistFrame == UNCHANGED <<up, uploadStore, proxyStore, limiter, now, stored, served, prev, last, passed, fetch, flights, unwrap>>

\* One more failed attempt in a row, counted up to MaxStreak.
FailedAttempt(b) ==
    [b EXCEPT !.did = "failed",
              !.streak = IF @ < MaxStreak THEN @ + 1 ELSE @,
              !.fifthAt = IF b.streak + 1 = MAX_FAIL_COUNT THEN b.clock ELSE @]

\* updateCache(): imagesOk and accountsOk say whether the fetch of each
\* remote list, if it is configured, brings a list.
updateCache(b, imagesOk, accountsOk) ==
    LET backOff == b.failCount >= MAX_FAIL_COUNT
        fails   == (IF backOff THEN 0 ELSE b.failCount)
                   + (IF b.images_url /\ ~imagesOk THEN 1 ELSE 0)
                   + (IF b.accounts_url /\ ~accountsOk THEN 1 ELSE 0)
        updated == (b.images_url /\ imagesOk) \/ (b.accounts_url /\ accountsOk)
    IN  IF backOff /\ b.clock - b.lastFetch < CACHE_TTL * 3
        THEN [b EXCEPT !.did = "skipped"]
        ELSE IF ~b.images_url /\ ~b.accounts_url
        THEN [b EXCEPT !.failCount = IF backOff THEN 0 ELSE @, !.did = "unset"]
        ELSE IF updated
        THEN [b EXCEPT !.lastFetch = b.clock, !.failCount = 0,
                       !.did = "updated", !.streak = 0]
        ELSE FailedAttempt([b EXCEPT !.failCount = fails])

\* initBlacklistService: the cache is stamped, the first updateCache() is
\* due at once and the timer every CACHE_TTL after it.
InitBlacklistService ==
    /\ ~blacklist.started
    /\ \E images_url \in BOOLEAN, accounts_url \in BOOLEAN :
          blacklist' = [blacklist EXCEPT !.images_url = images_url,
                                         !.accounts_url = accounts_url,
                                         !.started = TRUE,
                                         !.lastFetch = blacklist.clock,
                                         !.due = blacklist.clock]
    /\ BlacklistFrame

\* The first updateCache() and those of setInterval(..., CACHE_TTL).
TimerFires ==
    /\ blacklist.started
    /\ blacklist.clock = blacklist.due
    /\ \E imagesOk \in BOOLEAN, accountsOk \in BOOLEAN :
          blacklist' = [updateCache(blacklist, imagesOk, accountsOk)
                           EXCEPT !.due = blacklist.due + CACHE_TTL]
    /\ BlacklistFrame

\* isImageBlacklisted / isAccountBlacklisted: ensureFreshCache().
EnsureFreshCache ==
    /\ blacklist.started
    /\ blacklist.clock - blacklist.lastFetch > CACHE_TTL
    /\ \E imagesOk \in BOOLEAN, accountsOk \in BOOLEAN :
          blacklist' = updateCache(blacklist, imagesOk, accountsOk)
    /\ BlacklistFrame

\* Time passes, no further than the timer lets it.
ClockTick ==
    /\ blacklist.started
    /\ blacklist.clock < MaxClock
    /\ blacklist.clock < blacklist.due
    /\ blacklist' = [blacklist EXCEPT !.clock = @ + 1, !.did = ""]
    /\ BlacklistFrame

AllOk == IO(TRUE, TRUE, TRUE, TRUE)
IOs == {AllOk, IO(TRUE, FALSE, TRUE, TRUE), IO(TRUE, TRUE, FALSE, TRUE)}

Worlds ==
    { World(Res(200, "jpgA"), Res(200, "jpgB"), Res(200, "jpgB"), Res(200, "dflt")),
      World(Res(404, "page"), Res(200, "jpgB"), Threw, Res(200, "dflt")),
      World(Res(404, "page"), Res(404, "page"), Res(404, "page"), Res(200, "dflt")),
      World(Threw, Threw, Threw, Threw) }

PlainOptions == ProxyOptions(0, 0, "Fit", "Match", FALSE, FALSE, FALSE)
SomeOptions ==
    {PlainOptions,
     [PlainOptions EXCEPT !.ignorecache = TRUE],
     [PlainOptions EXCEPT !.refetch = TRUE],
     ProxyOptions(100, 0, "Cover", "WEBP", FALSE, FALSE, FALSE)}

UploadedUrls == {UploadUrl(b, "a.j") : b \in UploadBlobs}

NetUp == World(Res(200, "jpgA"), Res(200, "jpgB"), Res(200, "jpgB"), Res(200, "dflt"))
NetDown == World(Threw, Threw, Threw, Threw)

ServeRequests ==
    {ServeRequest(UploadKey(ImageHash(b)), FALSE, w, io) :
        b \in UploadBlobs, w \in Worlds, io \in {AllOk, IO(TRUE, FALSE, TRUE, TRUE)}}
    \cup {ServeRequest(UploadKey(ImageHash("jpgA")), TRUE, NetUp, AllOk)}

ProxyRequests ==
    {ProxyRequest(u, FALSE, o, FALSE, w, AllOk) :
        u \in UploadedUrls \cup {ExternalUrl}, o \in SomeOptions, w \in Worlds}
    \cup {ProxyRequest(u, FALSE, PlainOptions, FALSE, w, io) :
             u \in UploadedUrls, w \in {NetUp, NetDown}, io \in IOs}
    \cup {ProxyRequest(ExternalUrl, TRUE, PlainOptions, FALSE, NetUp, AllOk),
          ProxyRequest(ExternalUrl, FALSE, PlainOptions, TRUE, NetUp, AllOk)}

ProfileRequests ==
    {ProfileRequest(n, FALSE, bypass, FALSE, TRUE, w, AllOk) :
        n \in {"foo", "bar", "low"}, bypass \in BOOLEAN, w \in Worlds}
    \cup {ProfileRequest("foo", TRUE, FALSE, FALSE, TRUE, NetUp, io) : io \in IOs}
    \cup {ProfileRequest("foo", FALSE, FALSE, TRUE, TRUE, NetUp, AllOk),
          ProfileRequest("foo", FALSE, FALSE, FALSE, FALSE, NetUp, AllOk),
          ProfileRequest("nonexistent", FALSE, FALSE, FALSE, TRUE, NetUp, AllOk)}

(***************************************************************************)
(* Specifications.                                                         *)
(***************************************************************************)
\* The upload pipeline with every kind of header and file.
Next ==
    \/ Receive({"upload", "hs"}, AllHeaders, CoreFiles)
    \/ Authenticate(CoreNames \cup {""}, CoreCreds)
    \/ RateLimit
    \/ CheckReputation
    \/ StoreExists
    \/ StoreWrite
    \/ Release(FALSE)
    \/ Tick
    \/ WindowExpires

Spec == Init /\ [][Next]_vars

\* The upload pipeline with every kind of user name and credential.
NextAuth ==
    \/ Receive({"upload", "hs"}, {<<"2">>}, OneFile)
    \/ Authenticate(AllNames \cup {""}, AllCreds)
    \/ RateLimit
    \/ CheckReputation
    \/ StoreExists
    \/ StoreWrite
    \/ Release(FALSE)

SpecAuth == Init /\ [][NextAuth]_vars

\* Uploads next to the handlers that read the stores.
NextStores ==
    \/ Receive({"upload"}, {<<"2">>},
               {File(b, <<"a", ".", "j">>, Jpeg) : b \in UploadBlobs})
    \/ Authenticate({"foo"}, {Direct(Sig("Kfoo", ImageHash(b))) : b \in UploadBlobs})
    \/ RateLimit
    \/ CheckReputation
    \/ StoreExists
    \/ StoreWrite
    \/ Release(FALSE)
    \/ Serve(ServeRequests)
    \/ Proxy(ProxyRequests)
    \/ Avatar(ProfileRequests)
    \/ Cover(ProfileRequests)

SpecStores == Init /\ [][NextStores]_vars

\* Uploads of a few files by one account, each remembered for the next.
NextTwice ==
    \/ Receive({"upload", "hs"}, {<<"2">>},
               { File("jpgA", <<"a", ".", "j">>, Jpeg),
                 File("jpgA", <<"a", "b">>, Jpeg),
                 File("text", <<"A", ".", "J">>, Jpeg) })
    \/ Authenticate({"foo", ""},
                    {Direct(Sig("Kfoo", ImageHash(b))) : b \in UploadBlobs}
                    \cup {Hs(SignedToken("foo", "login", BroadcasterPubKey))})
    \/ RateLimit
    \/ CheckReputation
    \/ StoreExists
    \/ StoreWrite
    \/ Release(TRUE)
    \/ Tick
    \/ WindowExpires

SpecTwice == Init /\ [][NextTwice]_vars

\* Calls of fetchImageWithFallbacks alone. The body a slot answers with
\* tells the slots apart.
SlotBodies == <<"jpgA", "jpgB", "gifA", "jpgA", "jpgB", "gifA", "jpgA">>

FetchWorlds ==
    {[cands |-> [k \in 1..7 |-> IF k < g THEN bad
                                ELSE IF k = g THEN Res(200, SlotBodies[k])
                                ELSE after],
      def   |-> def] :
        g \in 1..8, bad \in {Threw, Res(404, "page"), Res(301, "")},
        after \in {Threw, Res(200, "jpgB")},
        def \in {Res(200, "dflt"), Res(500, "page"), Threw}}
    \cup {[cands |-> [k \in 1..7 |-> IF k < g THEN Threw ELSE Res(204, "")],
           def   |-> Res(200, "")] : g \in {1, 2, 8}}

FetchCalls ==
    {FetchArgs(u, "b58x", UrlString(DefaultAvatar), skip, w) :
        u \in {UrlString(ExternalUrl), UrlString(DefaultAvatar)},
        skip \in {{}, {UrlString(ExternalUrl)}},
        w \in FetchWorlds}

NextFetch ==
    \/ FetchCall(FetchCalls)
    \/ FetchSend
    \/ FetchReceive
    \/ FetchSendDefault
    \/ FetchReceiveDefault
    \/ FetchReturn

SpecFetch == Init /\ [][NextFetch]_vars

\* The GET handlers over the two stores, request after request.
BlacklistedUrl == Url("https://example.com", "img", "banned.jpg")

NetA == World(Res(200, "jpgA"), Res(200, "jpgA"), Res(200, "jpgA"), Res(200, "dflt"))
NetB == World(Res(200, "jpgB"), Res(200, "jpgB"), Res(200, "jpgB"), Res(200, "dflt"))
\* Only the default image answers.
NetDefault == World(Res(404, "page"), Res(404, "page"), Res(404, "page"), Res(200, "dflt"))
\* What the candidates of the default image's own URL answer.
NetOfDefault == World(Res(200, "dflt"), Res(404, "page"), Res(404, "page"), Res(200, "dflt"))

Flags(ignorecache, invalidate, refetch) ==
    [PlainOptions EXCEPT !.ignorecache = ignorecache, !.invalidate = invalidate,
                         !.refetch = refetch]

Queries ==
    {Flags(FALSE, FALSE, FALSE), Flags(TRUE, FALSE, FALSE),
     Flags(FALSE, TRUE, FALSE), Flags(FALSE, FALSE, TRUE)}

NoRemove == IO(TRUE, TRUE, TRUE, FALSE)

CacheProxyRequests ==
    {ProxyRequest(ExternalUrl, FALSE, o, f, w, AllOk) :
        o \in Queries, f \in BOOLEAN, w \in {NetA, NetB, NetDefault}}
    \cup {ProxyRequest(ExternalUrl, FALSE, Flags(FALSE, FALSE, TRUE), FALSE, w, NoRemove) :
             w \in {NetB, NetDefault, NetDown}}
    \cup {ProxyRequest(DefaultAvatar, FALSE, PlainOptions, FALSE, NetOfDefault, AllOk)}
    \cup {ProxyRequest(BlacklistedUrl, TRUE, PlainOptions, FALSE, w, AllOk) :
             w \in {NetOfDefault, NetDown}}

CacheProfileRequests ==
    {ProxyRequest(NoImage, FALSE, o, f, w, AllOk) :
        o \in Queries, f \in BOOLEAN, w \in {NetA, NetB, NetDefault}}

CacheServeRequests ==
    {ServeRequest(UploadKey(ImageHash("jpgA")), FALSE, w, io) :
        w \in {NetA, NetDefault, NetDown}, io \in {AllOk, IO(TRUE, FALSE, TRUE, TRUE)}}
    \cup {ServeRequest(UploadKey(ImageHash("jpgA")), TRUE, NetA, AllOk)}

\* Requests for uploads under several file names, one upload blacklisted
\* under the name it was uploaded with.
BlacklistedUpload == UploadUrl("jpgA", "a.j")

FileRequests ==
    {ServeRequest(UploadKey(ImageHash(b)), FALSE, w, io) :
        b \in {"jpgA", "jpgB"}, w \in {NetA, NetB, NetDown},
        io \in {AllOk, IO(TRUE, FALSE, TRUE, TRUE)}}

NextFiles == ServeFileGet(FileRequests, {"a.j", "bla.bla"}, {BlacklistedUpload})

SpecFiles == Init /\ [][NextFiles]_vars

\* Proxy requests that spell their target in every way.
imageBlacklist == {BlacklistedUrl}

Targets ==
    {Target(f, u) : f \in {"plain", "proxied", "prefixed", "old"},
                    u \in {ExternalUrl, BlacklistedUrl}}

TargetRequests ==
    {ProxyRequest(NoUrl, FALSE, o, FALSE, w, AllOk) :
        o \in Queries, w \in {NetA, NetB, NetDown}}

NextTargets == ProxyTargetGet(Targets, TargetRequests, imageBlacklist)

SpecTargets == Init /\ [][NextTargets]_vars

(***************************************************************************)
(* The :url of GET /p/:url and the double-proxy loop (src/proxy.ts,        *)
(* parseProxiedUrl of src/utils.ts).                                       *)
(***************************************************************************)
MaxDepth == 5

\* new URL(DEFAULT_FALLBACK_IMAGE_URL): an upload of this service.
FallbackHref == Href(SERVICE_URL, "/D", Garbage)

\* The URLs a token can be the base58 of.
LeafHref(leaf) ==
    CASE leaf = "external"  -> Href("https://example.com", "/i", Garbage)
      \* another host's URL whose path starts with /p/
      [] leaf = "elsewhere" -> Href("https://example.com", "/p", Garbage)
      \* an upload of this service: /DQm.../a.j
      [] leaf = "upload"    -> Href(SERVICE_URL, "/D", Garbage)
      \* a path of this service that starts with /p and is no /p/ URL
      [] leaf = "pages"     -> Href(SERVICE_URL, "/p", Garbage)
      \* the service's /p/ with nothing after it
      [] leaf = "bare"      -> Href(SERVICE_URL, "/p", Garbage)

\* .replace(/\.(webp|png)$/, ''): any other extension stays, and with it
\* the text is no base58.
CleanParam(param) == IF param.ext \in {"", ".webp", ".png"} THEN param.token ELSE Garbage.token

\* parseProxiedUrl on a token: the URL it decodes to, or the fallback image.
parseProxiedToken(token) ==
    IF token.exts # <<>>
    THEN Href(SERVICE_URL, "/p", ProxyParam(ProxyToken(Tail(token.exts), token.leaf), Head(token.exts)))
    ELSE IF token.leaf = "garbage" THEN FallbackHref
    ELSE LeafHref(token.leaf)

Undecodable(token) == token.exts = <<>> /\ token.leaf = "garbage"

\* url.origin === SERVICE_URL.origin && url.pathname.slice(0, 2) === '/p'
DoubleProxied(url) == url.origin = SERVICE_URL /\ url.prefix = "/p"

UnwrapFrame == UNCHANGED <<up, uploadStore, proxyStore, limiter, now, stored, served, prev, last, passed, fetch, flights, blacklist>>

\* const cleanUrl = ...; let url = parseProxiedUrl(cleanUrl)
UnwrapStart(Params) ==
    /\ unwrap.pc = "idle"
    /\ \E param \in Params :
          unwrap' = [pc |-> "loop", param |-> param,
                     url |-> parseProxiedToken(CleanParam(param)),
                     iterations |-> 0,
                     undecodable |-> Undecodable(CleanParam(param))]
    /\ UnwrapFrame

\* One turn of the while loop.
UnwrapStep ==
    /\ unwrap.pc = "loop"
    /\ DoubleProxied(unwrap.url)
    /\ LET cleanUrl2 == CleanParam(unwrap.url.rest)
       IN  unwrap' = [unwrap EXCEPT !.url = parseProxiedToken(cleanUrl2),
                                    !.iterations = @ + 1,
                                    !.undecodable = Undecodable(cleanUrl2)]
    /\ UnwrapFrame

\* The loop's condition is false.
UnwrapExit ==
    /\ unwrap.pc = "loop"
    /\ ~DoubleProxied(unwrap.url)
    /\ unwrap' = [unwrap EXCEPT !.pc = "done"]
    /\ UnwrapFrame

\* The handler goes on with the url, and the request is answered.
UnwrapReturn ==
    /\ unwrap.pc = "done"
    /\ unwrap' = NotUnwrapping
    /\ UnwrapFrame

Extensions == {"", ".webp", ".jpg"}
Leaves == {"external", "elsewhere", "upload", "pages", "bare", "garbage"}

RECURSIVE Nested(_)
Nested(n) ==
    IF n = 0 THEN {<<>>}
    ELSE LET shorter == Nested(n - 1)
         IN  shorter \cup {<<e>> \o exts : e \in Extensions, exts \in shorter}

UnwrapParams ==
    {ProxyParam(ProxyToken(exts, leaf), ext) :
        exts \in Nested(MaxDepth), leaf \in Leaves, ext \in Extensions}

NextUnwrap ==
    \/ UnwrapStart(UnwrapParams)
    \/ UnwrapStep
    \/ UnwrapExit
    \/ UnwrapReturn

SpecUnwrap == Init /\ [][NextUnwrap]_vars

\* GET requests during which one kind of store operation fails.
StoreFaults ==
    {AllOk, IO(FALSE, TRUE, TRUE, TRUE), IO(TRUE, FALSE, TRUE, TRUE),
     IO(TRUE, TRUE, FALSE, TRUE), IO(TRUE, FALSE, TRUE, FALSE)}

FaultProxyRequests ==
    {ProxyRequest(ExternalUrl, FALSE, o, FALSE, w, io) :
        o \in {PlainOptions, Flags(TRUE, FALSE, FALSE),
               ProxyOptions(512, 0, "Cover", "JPEG", FALSE, FALSE, FALSE)},
        w \in {NetA, NetB}, io \in StoreFaults}

FaultProfileRequests ==
    {ProxyRequest(NoImage, FALSE, o, FALSE, w, io) :
        o \in {PlainOptions, Flags(TRUE, FALSE, FALSE)},
        w \in {NetA, NetB}, io \in StoreFaults}

FaultServeRequests ==
    {ServeRequest(UploadKey(ImageHash("jpgA")), FALSE, w, io) :
        w \in {NetA, NetB}, io \in StoreFaults}

NextFaults ==
    \/ ServeGet(FaultServeRequests)
    \/ ProxyGet(FaultProxyRequests)
    \/ AvatarGet({"bar"}, FaultProfileRequests)
    \/ CoverGet({"low"}, FaultProfileRequests)

SpecFaults == Init /\ [][NextFaults]_vars

\* The blacklist service with its timer and with callers of the checks
\* that refresh the cache.
NextBlacklist ==
    \/ InitBlacklistService
    \/ TimerFires
    \/ EnsureFreshCache
    \/ ClockTick

SpecBlacklist == Init /\ [][NextBlacklist]_vars

\* The blacklist service with its timer alone.
NextTimer ==
    \/ InitBlacklistService
    \/ TimerFires
    \/ ClockTick

SpecTimer == Init /\ [][NextTimer]_vars

\* Concurrent proxy requests.
NextFlights ==
    \/ FlightLookImage
    \/ FlightLookOrig
    \/ FlightFetch
    \/ FlightStoreOrig
    \/ FlightConvert
    \/ FlightStoreImage

SpecFlights == Init /\ [][NextFlights]_vars

\* The redirecting routes.
Huge == <<"1", "0", "0", "0", "0", "0", "0", "0", "0", "0", "0",
          "0", "0", "0", "0", "0", "0", "0", "0", "0", "0", "0">>

Dimensions == {<<"0">>, <<"5", "0", "0">>, <<"0", "3", "0">>, Huge}

RawUrls ==
    {Raw("https://example.com/img/x.jpg", 0), Raw("https://example.com/img/x.jpg", 2),
     Raw("https://example.com", 0), Raw("https://example.com", 1),
     Raw("example.com/x.jpg", 0), NoUrlGiven}

LegacyRequests ==
    {LegacyRequest(w, h, u) : w \in Dimensions, h \in Dimensions, u \in RawUrls}

NextRedirect ==
    \/ LegacyGet(LegacyRequests)
    \/ LegacyWGet(LegacyRequests)
    \/ AvatarWGet({"foo", "bar"}, {"", "small", "128"})
    \/ CoverWGet({"foo", "bar"})
    \/ FollowToProxy

SpecRedirect == Init /\ [][NextRedirect]_vars

\* Proxy requests with every combination of options.
Sizes == {0, 512}

KeyOptions ==
    {ProxyOptions(w, h, m, f, FALSE, FALSE, FALSE) :
        w \in Sizes, h \in Sizes, m \in {"Cover", "Fit"},
        f \in {"Match", "JPEG", "PNG", "WEBP", "AVIF"}}

KeyRequests == {ProxyRequest(ExternalUrl, FALSE, o, FALSE, NetA, AllOk) : o \in KeyOptions}

NextKeys == ProxyGet(KeyRequests)

SpecKeys == Init /\ [][NextKeys]_vars

NextCache ==
    \/ ServeGet(CacheServeRequests)
    \/ ProxyGet(CacheProxyRequests)
    \/ AvatarGet({"bar"}, CacheProfileRequests)
    \/ CoverGet({"low"}, CacheProfileRequests)

SpecCache == Init /\ [][NextCache]_vars

(***************************************************************************)
(* Properties.                                                             *)
(***************************************************************************)
\* C1: in both upload handlers the upload store is written only by a
\* request whose signature verification has succeeded, and a request
\* rejected with InvalidSignature has neither probed nor written the store.
C1_WriteOnlyAfterVerification ==
    /\ [][uploadStore' # uploadStore =>
             /\ up.pc = "write"
             /\ up.validSignature
             /\ up'.wrote
             /\ up'.result # "InvalidSignature"]_vars
    /\ [](up.result = "InvalidSignature" =>
             ~up.validSignature /\ ~up.probed /\ ~up.wrote)

C1_Witness ==
    /\ up.pc = "done" /\ up.handler = "hs" /\ up.result = "OK"
    /\ up.wrote /\ up.validSignature
    /\ Exists(uploadStore, up.url.key)

\* C2: in direct-signature mode the verification of an upload for account A
\* succeeds exactly when the signature was made over the challenge digest of
\* the uploaded bytes by a key listed in A's posting or active key_auths
\* with a weight that reaches that authority's threshold; every other
\* direct signature ends in InvalidSignature.
C2_DirectSignature ==
    LET sig == up.cred.sig
        Listed(authority) ==
            \E i \in 1..Len(authority.key_auths) :
                /\ authority.key_auths[i][1] = sig.by
                /\ authority.key_auths[i][2] >= authority.weight_threshold
        holds ==
            /\ sig.over.kind = "image"
            /\ sig.over.body = <<"ImageSigningChallenge", up.file.data>>
            /\ Listed(Chain[up.account].posting) \/ Listed(Chain[up.account].active)
    IN  (up.handler = "upload" /\ up.cred.kind = "direct" /\ up.account # "") =>
            /\ up.validSignature <=> holds
            /\ ~holds => up.pc = "done" /\ up.result = "InvalidSignature"

C2_Witness ==
    /\ up.handler = "upload" /\ up.cred.kind = "direct"
    /\ up.account = "bar" /\ up.cred.sig.by = "Kfoo"
    /\ up.validSignature /\ up.pc = "limit"

\* C9: a signature parameter beginning with "stndt" never authenticates:
\* the request ends at once, without a verified signature, a store access
\* or a 200, and with InvalidSignature when the account was found.
C9_LegacyBypassRejected ==
    up.cred.kind = "stndt" =>
        /\ up.pc = "done"
        /\ ~up.validSignature /\ ~up.probed /\ ~up.wrote
        /\ up.result # "OK"
        /\ up.account # "" => up.result = "InvalidSignature"

C9_Witness ==
    /\ up.cred.kind = "stndt" /\ up.account = "foo"
    /\ up.result = "InvalidSignature" /\ uploadStore = EmptyStore

\* C10: a multipart upload whose Content-Length does not parse ends in
\* LengthRequired whatever its body; one announcing MAX_IMAGE_SIZE + 1 bytes
\* or more ends in PayloadTooLarge; one announcing exactly MAX_IMAGE_SIZE is
\* refused for its size only when the file itself was cut; and both errors
\* come before any account lookup, signature verification or store access.
C10_LengthChecks ==
    LET unparsable == {<<>>, <<"x">>, <<"x", "4">>}
        tooLarge   == {<<"4">>, <<"4", "x">>, <<"1", "2">>}
        exactlyMax == {<<"3">>}
    IN  /\ (up.multipart /\ up.header \in unparsable) =>
               up.pc = "done" /\ up.result = "LengthRequired" /\ up.file = NoFile
        /\ (up.multipart /\ up.header \in tooLarge) =>
               up.pc = "done" /\ up.result = "PayloadTooLarge" /\ up.file = NoFile
        /\ (up.multipart /\ up.header \in exactlyMax) =>
               /\ up.result # "LengthRequired"
               /\ up.result = "PayloadTooLarge" =>
                      ByteLength(up.file.data) > MAX_IMAGE_SIZE
               /\ (up.file.present /\ ByteLength(up.file.data) <= MAX_IMAGE_SIZE
                   /\ up.handler = "upload") => up.pc = "auth"
        /\ up.result \in {"LengthRequired", "PayloadTooLarge"} =>
               /\ up.account = "" /\ up.cred = NoCred
               /\ ~up.validSignature /\ ~up.probed /\ ~up.wrote

C10_Witness ==
    /\ up.pc = "auth" /\ up.multipart /\ up.header = <<"3">>
    /\ up.file.present

\* C6: when the bytes and file name of the last upload answered with 200 are
\* uploaded again, the key is the same, the url is the same whenever the
\* sanitized file name is not empty and has a '.', and nothing is written.
C6_SameBytesAgain ==
    LET name == SanitizeName(up.file.raw)
    IN  (/\ up.pc = "done" /\ up.result = "OK"
         /\ prev.set /\ prev.data = up.file.data /\ prev.raw = up.file.raw) =>
            /\ up.url.key = prev.url.key
            /\ (Len(name) > 0 /\ HasDot(name)) => up.url = prev.url
            /\ ~up.wrote
            /\ uploadStore[up.url.key] = up.file.data

C6_Witness ==
    /\ up.pc = "done" /\ up.result = "OK" /\ ~up.wrote
    /\ prev.set /\ prev.data = up.file.data /\ prev.raw = up.file.raw
    /\ ~up.name.generated /\ up.url = prev.url /\ now > 0

\* C6 as stated: the same bytes under the same file name always come back
\* with the same url.
C6_AsStated ==
    (/\ up.pc = "done" /\ up.result = "OK"
     /\ prev.set /\ prev.data = up.file.data /\ prev.raw = up.file.raw) =>
        up.url = prev.url /\ ~up.wrote

\* C3: for a well-formed token of the account's, on both entry points, the
\* signature counts as verified exactly when the broadcaster key verifies it, or an
\* account_auths entry of the account is the app account, or a key_auths
\* key of the account verifies it.
C3_TokenAcceptance ==
    LET token   == up.cred.token
        sig     == token.signatures[1]
        account == Chain[up.account]
        signed  == /\ sig.over.kind = "token"
                   /\ sig.over.body = <<token.signed_message, token.authors, token.timestamp>>
        types   == {account.posting, account.active, account.owner}
        a == signed /\ sig.by = BroadcasterPubKey
        b == \E t \in types : \E i \in 1..Len(t.account_auths) :
                 t.account_auths[i][1] = UPLOAD_LIMITS_app_account
        c == signed /\ \E t \in types : \E i \in 1..Len(t.key_auths) :
                 t.key_auths[i][1] = sig.by
    IN  (/\ up.cred.kind \in {"hive", "hs"}
         /\ up.account # ""
         /\ token.json = "object" /\ WellFormed(token) /\ ~IsMalformedSig(sig)
         /\ token.authors[1] = up.account) =>
            (up.validSignature <=> (a \/ b \/ c))

\* C4: a request authenticated by a token uploads for the account that is
\* the token's first author.
C4_TokenAuthorIsAccount ==
    (up.cred.kind \in {"hive", "hs"} /\ up.validSignature) =>
        up.cred.token.authors[1] = up.account

\* C5: whatever an upload has written under a key is what the upload store
\* holds under that key ever after.
C5_UploadsPersist ==
    \A e \in stored : Exists(uploadStore, e[1]) /\ uploadStore[e[1]] = e[2]

\* C7: with the chain answering, a direct-signature upload ends in the
\* error of the first check it fails, in the order account exists,
\* signature valid, account not blacklisted, and only then quota and
\* reputation.
C7_FirstFailingCheck ==
    LET name   == ToLowerCase(up.username)
        exists == name \in ChainNames
        sig    == up.cred.sig
        Listed(authority) ==
            \E i \in 1..Len(authority.key_auths) :
                /\ authority.key_auths[i][1] = sig.by
                /\ authority.key_auths[i][2] >= authority.weight_threshold
        valid  == /\ sig.over.kind = "image"
                  /\ sig.over.body = <<"ImageSigningChallenge", up.file.data>>
                  /\ Listed(Chain[name].posting) \/ Listed(Chain[name].active)
    IN  (/\ up.pc = "done" /\ up.handler = "upload" /\ up.cred.kind = "direct"
         /\ up.rpcOk) =>
            /\ ~exists => up.result = "NoSuchAccount"
            /\ (exists /\ ~valid) => up.result = "InvalidSignature"
            /\ (exists /\ valid /\ name \in AccountBlacklist) =>
                   up.result = "Blacklisted"
            /\ (exists /\ valid /\ name \notin AccountBlacklist) =>
                   /\ up.result \in {"QoutaExceeded", "Deplorable", "OK",
                                     "InternalError", "Exception"}
                   /\ up.result = "Deplorable" =>
                          Reputation[name] < UPLOAD_LIMITS_reputation
                   /\ up.result \in {"OK", "InternalError", "Exception"} =>
                          Reputation[name] >= UPLOAD_LIMITS_reputation

\* C8: a token that is not JSON, or lacks authors[0], signatures[0] or
\* signed_message.app, or has a type outside the list, ends in
\* InvalidSignature on both entry points, without a write.
C8_MalformedToken ==
    LET token     == up.cred.token
        malformed ==
            \/ token.json # "object"
            \/ Len(token.authors) = 0 \/ Len(token.signatures) = 0
            \/ (Len(token.authors) > 0 /\ token.authors[1] = "")
            \/ token.signed_message.app = ""
            \/ token.signed_message.type \notin TokenTypes
    IN  (/\ up.pc = "done" /\ up.cred.kind \in {"hive", "hs"} /\ malformed
         /\ up.cred.kind = "hive" => up.account # "") =>
            up.result = "InvalidSignature" /\ ~up.wrote

\* C11: on both upload endpoints, an upload whose file part (within the
\* size limit) has a content type outside the accepted set is answered
\* InvalidImage and writes nothing.
C11_ContentTypeRejected ==
    (/\ up.file.present
     /\ ByteLength(up.file.data) <= MAX_IMAGE_SIZE
     /\ up.file.mime \notin AcceptedContentTypes) =>
        (up.result = "InvalidImage" /\ ~up.probed /\ ~up.wrote)

\* C12: with the limiter reachable, at most UPLOAD_LIMITS.max uploads of an
\* account pass the quota check in one window; a further one is answered
\* QoutaExceeded, and such a request neither probes nor writes the store.
C12_QuotaPerWindow ==
    /\ [](\A a \in ChainNames : passed[a] <= UPLOAD_LIMITS_max)
    /\ [][(/\ up.pc = "limit" /\ up'.pc # "limit" /\ up'.redisOk
           /\ passed[up.account] = UPLOAD_LIMITS_max) =>
              (/\ up'.result = "QoutaExceeded"
               /\ passed' = passed /\ uploadStore' = uploadStore)]_vars
    /\ [](up.result = "QoutaExceeded" => ~up.probed /\ ~up.wrote)

C12_Witness ==
    /\ up.result = "QoutaExceeded" /\ up.redisOk
    /\ passed[up.account] = UPLOAD_LIMITS_max
    /\ uploadStore # EmptyStore

\* C13: when the limiter cannot be reached the quota check is passed over:
\* the request goes on to the reputation check, the limiter is left as it
\* was, and QoutaExceeded is only ever answered with the limiter reachable.
C13_LimiterBypassed ==
    /\ [][(up.pc = "limit" /\ up'.pc # "limit" /\ ~up'.redisOk) =>
              (up'.pc = "profile" /\ up'.result = "" /\ limiter' = limiter)]_vars
    /\ [](up.result = "QoutaExceeded" => up.redisOk)

C13_Witness ==
    /\ up.pc = "profile" /\ ~up.redisOk
    /\ limiter[up.account] = UPLOAD_LIMITS_max

\* The requests of the call in flight follow the declared order with the
\* entries of skipUrls left out, then the default image; every request but
\* the last has failed; at most one is outstanding.
C14_OrderKept ==
    LET u == fetch.urlString
        p == fetch.urlParams
        declared == << u,
                       "https://images.hive.blog/0x0/" \o u,
                       "https://steemitimages.com/0x0/" \o u,
                       "https://wsrv.nl/?url=" \o u,
                       "https://img.leopedia.io/0x0/" \o u,
                       "https://images.hive.blog/p/" \o p,
                       "https://steemitimages.com/p/" \o p >>
        kept == SelectSeq(declared, LAMBDA x : x \notin fetch.skipUrls)
        Answered(a) == IF a.slot = 0 THEN fetch.world.def
                       ELSE fetch.world.cands[a.slot]
        Failed(r) == r.threw \/ r.statusCode \notin 200..299
        n == Len(fetch.asked)
    IN  /\ fetch.outstanding <= 1
        /\ \A j \in 1..n :
              /\ j <= Len(kept) => fetch.asked[j].url = kept[j] /\ fetch.asked[j].slot # 0
              /\ j > Len(kept) => j = Len(kept) + 1 /\ fetch.asked[j].slot = 0
              /\ j < n => Failed(Answered(fetch.asked[j]))
        /\ fetch.pc = "returned" =>
              ~Failed(Answered(fetch.asked[n])) /\ fetch.outstanding = 0

\* A request goes out only when none is outstanding and every request made
\* before it has failed.
C14_SentAlone ==
    LET Answered(a) == IF a.slot = 0 THEN fetch.world.def
                       ELSE fetch.world.cands[a.slot]
        Failed(r) == r.threw \/ r.statusCode \notin 200..299
    IN  (fetch'.asked # fetch.asked /\ fetch'.pc # "idle") =>
            /\ fetch.outstanding = 0
            /\ fetch'.outstanding = 1
            /\ \A j \in 1..Len(fetch.asked) : Failed(Answered(fetch.asked[j]))

C15_ThreeOutcomes ==
    LET n == Len(fetch.asked)
        m == Len(fetch.urls)
        answers == [j \in 1..m |-> fetch.world.cands[fetch.urls[j].slot]]
        Ok(r) == ~r.threw /\ r.statusCode \in 200..299
        defaults == {j \in 1..n : fetch.asked[j].slot = 0}
    IN  /\ fetch.pc = "returned" /\ ~fetch.isFallback =>
               /\ n \in 1..m /\ Ok(answers[n]) /\ fetch.res = answers[n]
               /\ \A j \in 1..(n - 1) : ~Ok(answers[j])
               /\ defaults = {}
        /\ fetch.pc = "returned" /\ fetch.isFallback =>
               /\ \A j \in 1..m : ~Ok(answers[j])
               /\ Ok(fetch.world.def) /\ fetch.res = fetch.world.def
               /\ n = m + 1 /\ defaults = {n}
        /\ fetch.pc = "threw" =>
               /\ \A j \in 1..m : ~Ok(answers[j])
               /\ ~Ok(fetch.world.def)
               /\ n = m + 1 /\ defaults = {n}
        /\ fetch.pc \in {"returned", "threw"} =>
               LET result == fetchImageWithFallbacks(fetch.world,
                                                     fetch.urlString \in fetch.skipUrls)
               IN  /\ result.threw <=> fetch.pc = "threw"
                   /\ ~result.threw =>
                          result.res = fetch.res /\ result.isFallback = fetch.isFallback

C15_Witness ==
    /\ fetch.pc = "returned" /\ fetch.isFallback
    /\ fetch.urlString = fetch.defaultUrl
    /\ Len(fetch.asked) = 8 /\ fetch.res.body = "dflt"

\* C15 as stated: isFallback is true exactly when the bytes returned came
\* from defaultUrl, which is then a URL requested exactly once.
C15_AsStated ==
    LET n == Len(fetch.asked)
    IN  fetch.pc = "returned" =>
           /\ fetch.isFallback <=> fetch.asked[n].url = fetch.defaultUrl
           /\ fetch.isFallback =>
                  Cardinality({j \in 1..n : fetch.asked[j].url = fetch.defaultUrl}) = 1

\* C16: a response is accepted only with a status in 200..299 and a body
\* that is not empty.
C16_NonEmptyBodyRequired ==
    fetch.pc = "returned" =>
        fetch.res.statusCode \in 200..299 /\ fetch.res.body # ""

\* The options a handler converts with, and the keys of a recorded request.
OptionsOf(l) ==
    CASE l.handler = "avatar" -> AvatarOptions(0, FALSE)
      [] l.handler = "cover"  -> CoverOptions(FALSE, FALSE)
      [] OTHER                -> l.options

OrigKeyOf(l) ==
    LET url == IF l.blacklisted THEN DefaultAvatar ELSE l.url
    IN  IF l.handler = "proxy" THEN ProxyOrigKey(url)
        ELSE IF OrigIsUpload(url) THEN url.first
        ELSE getUrlHashKey(UrlString(url))

ImageKeyOf(l) == getImageKey(OrigKeyOf(l), OptionsOf(l))

\* The bodies a request's upstreams answer with, as they are and converted.
FreshBytes(l) ==
    LET bodies == {l.world.cands[k].body : k \in DOMAIN l.world.cands}
                  \cup {l.world.def.body}
    IN  bodies \cup {Converted(b, OptionsOf(l)) : b \in bodies}

\* C17: a GET /p/ request for a blacklisted URL is answered with the
\* default avatar image and Cache-Control public,max-age=600 in every state
\* of the stores.
C17_BlacklistedServesDefault ==
    (last.set /\ last.handler = "proxy" /\ last.blacklisted
        /\ last.world = NetOfDefault)
    => /\ last.status = "200"
       /\ last.body \in {"dflt", Converted("dflt", last.options)}
       /\ last.cache = TenMinutes

\* C18: a request with a cache-bypass flag (ignorecache, invalidate or
\* refetch) never answers with bytes read from a store: what it sends was
\* fetched from upstream by this request.
C18_BypassNeverServesStored ==
    (last.set /\ Bypass(last.options) /\ last.status = "200")
    => last.body \in FreshBytes(last)

\* C19: after a proxy request with refetch=1 has completed, what was stored
\* under imageKey and (for a proxied original) under origKey before it is no
\* longer there: the key is absent or holds what this request fetched.
C19_RefetchEvicts ==
    (last.set /\ last.handler = "proxy" /\ last.options.refetch)
    => \A key \in {ImageKeyOf(last)}
                   \cup (IF OrigIsUpload(last.url) THEN {} ELSE {OrigKeyOf(last)}) :
           (key \in DOMAIN last.before.ps /\ key \in DOMAIN proxyStore
               /\ proxyStore[key] = last.before.ps[key])
           => proxyStore[key] \in FreshBytes(last)

\* C20: a request is answered 304 only when If-None-Match matches the ETag
\* and no bypass flag is set; a request with a bypass flag is never answered
\* 304, and what it sends was refetched.
C20_NotModifiedOnlyWithoutBypass ==
    last.set
    => /\ last.status = "304" => (last.fresh /\ ~Bypass(last.options))
       /\ Bypass(last.options) =>
             /\ last.status # "304"
             /\ last.status = "200" => last.body \in FreshBytes(last)

\* The default image's bytes, as they are and as a request converts them.
DefaultBytes(l) == {"dflt", Converted("dflt", OptionsOf(l))}

\* The default image stands in for the image of another URL.
Substituted(l) ==
    /\ l.set /\ l.status = "200" /\ ~l.blacklisted
    /\ l.url \notin {DefaultAvatar, DefaultCover}
    /\ l.body \in DefaultBytes(l)

\* C21: every response whose bytes were produced through the fallback path
\* (the default image substituted for the requested one) carries
\* Cache-Control public,max-age=600.
C21_FallbackShortLived == Substituted(last) => last.cache = TenMinutes

\* C22: every image response produced under cache-bypass (ignorecache,
\* invalidate or refetch) by the proxy, avatar or cover handler carries
\* Cache-Control no-cache,must-revalidate.
C22_BypassNoCache ==
    (last.set /\ Bypass(last.options) /\ last.status = "200")
    => last.cache = NoCache

\* C23: every image response (proxy cache hit or miss, fallback image,
\* avatar, cover, serve) carries an ETag, Vary: Accept and a Cache-Control
\* header.
C23_ImageHeaders ==
    (last.set /\ last.status = "200")
    => (last.etag # "" /\ last.vary /\ last.cache # "")

\* The key the serve handler reads for a recorded request.
ServeKeyOf(l) == IF l.blacklisted THEN DEFAULT_AVATAR_HASH ELSE l.url.first

\* C24: the serve handler answers 200, with the stored bytes, exactly when
\* the key was in the upload store and readable as the request read it; on
\* a miss it answers 404, also when a mirror supplied the bytes and they
\* were written through.
C24_ServeMissIs404 ==
    (last.set /\ last.handler = "serve")
    => LET hit == Exists(last.before.us, ServeKeyOf(last)) /\ last.io.read
       IN  /\ last.status = IF hit THEN "200" ELSE "404"
           /\ hit => last.body = last.before.us[ServeKeyOf(last)]
           /\ ~hit => last.body = ""

\* A miss answered 404 after the mirror's bytes were written through.
C24_Witness ==
    /\ last.set /\ last.handler = "serve" /\ last.status = "404"
    /\ ~Exists(last.before.us, ServeKeyOf(last))
    /\ Exists(uploadStore, ServeKeyOf(last))
    /\ uploadStore[ServeKeyOf(last)] = last.world.cands[2].body

\* The key as the claim writes it.
C25_Key(origKey, o) ==
    IF o.mode = "Fit" /\ o.format = "Match"
    THEN origKey \o "_" \o ToString(o.width) \o "x" \o ToString(o.height)
    ELSE origKey \o "_" \o o.mode \o "_" \o o.format
         \o (IF o.width # 0 THEN "_" \o ToString(o.width) ELSE "")
         \o (IF o.height # 0 THEN "_" \o ToString(o.height) ELSE "")

\* C25: the imageKey is "{origKey}_{W}x{H}" for mode=Fit and format=Match
\* and "{origKey}_{Mode}_{Format}" followed by the dimensions that are set
\* otherwise, with Format in {Match, JPEG, PNG, WEBP, AVIF}: a proxy request
\* that stores its converted image stores it under that key.
C25_ImageKeyFormat ==
    (last.set /\ last.handler = "proxy" /\ last.status = "200"
        /\ last.world = NetA /\ last.io = AllOk /\ ~last.blacklisted)
    => Exists(proxyStore, C25_Key(ProxyOrigKey(last.url), last.options))

(***************************************************************************)
(* The redirecting routes.                                                 *)
(***************************************************************************)
\* The URL a legacy request names: its text without the slashes that end
\* it, as new URL() writes it.
TargetOf(raw) == NewURL(TrimSlashes(raw)).href

\* The number the digits of a path write is the number n.
SameDimension(digits, n) == DigitsOf(n) = StripZeros(digits)

\* The last request was GET /{W}x{H}/{url} with a URL that parses.
LegacyAnswered ==
    /\ last.set
    /\ last.handler = "legacy"
    /\ last.redirect.path.url # NoUrlGiven
    /\ ~NewURL(TrimSlashes(last.redirect.path.url)).threw

\* C26: GET /{W}x{H}/{url} with non-negative integers W and H and a URL that
\* parses answers 301 with Location /p/{base58(url)}.png?format=match&mode=fit
\* and the dimensions, and the proxy handler following the redirect resolves
\* the same URL, mode Fit and the same width and height (0: unspecified).
C26_LegacyRoundTrip ==
    LegacyAnswered =>
        LET path     == last.redirect.path
            response == last.redirect.response
            followed == last.redirect.followed
        IN  /\ response.status = MovedPermanently
            /\ response.location.route = "p"
            /\ response.location.url = UrlParam(base58Enc(TargetOf(path.url)), ".png")
            /\ response.location.query.mode = "fit"
            /\ response.location.query.format = "match"
            /\ followed.set =>
                  /\ ~followed.threw
                  /\ followed.url = TargetOf(path.url)
                  /\ followed.options.mode = "Fit"
                  /\ SameDimension(path.width, followed.options.width)
                  /\ SameDimension(path.height, followed.options.height)

\* C27: every GET route under /webp/ answers 301 with the Location being
\* the request's path without the /webp prefix.
C27_WebpRedirects301 ==
    (last.set /\ last.handler = "webp") =>
        /\ last.redirect.response.status = MovedPermanently
        /\ last.redirect.response.location = [last.redirect.path EXCEPT !.webp = FALSE]

\* C28: a proxy request whose target, after the unwrapping of a /p/ URL of
\* the service, the extraction from the service's /0x0/ prefix and the
\* domain and path replacements, is a blacklisted URL is handled as
\* blacklisted: that URL is not fetched, and nothing stored under its key
\* is served or written.
C28_BlacklistOnCanonical ==
    (last.set /\ last.handler = "proxy" /\ last.url \in imageBlacklist)
    => /\ last.blacklisted
       /\ Exists(proxyStore, ProxyOrigKey(last.url)) =>
              /\ Exists(last.before.ps, ProxyOrigKey(last.url))
              /\ proxyStore[ProxyOrigKey(last.url)] = last.before.ps[ProxyOrigKey(last.url)]
       /\ last.body \in {"", "dflt", Converted("dflt", last.options)}

\* The keys the last request derives from its URL, in the store each is in.
HeldUnder(l) ==
    {proxyStore[k] : k \in {OrigKeyOf(l), ImageKeyOf(l)} \cap DOMAIN proxyStore}
    \cup {uploadStore[k] : k \in {OrigKeyOf(l)} \cap DOMAIN uploadStore}

\* C29: the default image's bytes are never written under the origKey or
\* the imageKey of a requested URL, by the proxy, avatar and cover handlers
\* alike: no key derived from a URL holds the default image unless the URL
\* is the default image's own.
C29_FallbackNeverStored ==
    (last.set /\ last.handler \in {"proxy", "avatar", "cover"} /\ ~last.blacklisted
        /\ last.url \notin {DefaultAvatar, DefaultCover})
    => HeldUnder(last) \cap DefaultBytes(last) = {}

\* Every concurrent proxy request has been answered, and no write of a
\* store failed.
AllLanded ==
    \A i \in 1 .. MaxFlights :
        flights[i].pc = "done" /\ flights[i].orig # "failed" /\ flights[i].image # "failed"

\* C30: for any interleaving of concurrent proxy requests for the same URL
\* and options, once all of them have completed without fallback, the
\* bytes under imageKey are the conversion of the bytes under origKey, even
\* when upstream answered the requests with different bytes.
C30_ArtifactMatchesOriginal ==
    AllLanded =>
        /\ Exists(proxyStore, FlightOrigKey)
        /\ Exists(proxyStore, FlightImageKey)
        /\ proxyStore[FlightImageKey] = Converted(proxyStore[FlightOrigKey], FlightOptions)

(***************************************************************************)
(* Keys, store errors and the order of the writes.                         *)
(***************************************************************************)
\* C31: for a fixed origKey getImageKey is injective in the transform
\* options (width, height, mode, format; 0 is unspecified): no other options
\* have the imageKey of the request's options, so what a request is served
\* from the store was built with the options it asks for.
C31_ImageKeyInjective ==
    (last.set /\ last.handler = "proxy" /\ last.status = "200")
    => /\ \A o \in KeyOptions :
             o # last.options =>
                 getImageKey(ProxyOrigKey(last.url), o)
                     # getImageKey(ProxyOrigKey(last.url), last.options)
       /\ last.body \in FreshBytes(last)

\* The last request wrote the upload store under `key`.
WroteUpload(l, key) ==
    /\ Exists(uploadStore, key)
    /\ ~Exists(l.before.us, key) \/ l.before.us[key] # uploadStore[key]

\* C32: the serve handler writes bytes into the upload store under the
\* requested hash only when a mirror returned them with a 2xx status; the
\* body of a non-2xx mirror response is never stored.
C32_OnlyGoodMirrorStored ==
    (last.set /\ last.handler = "serve" /\ WroteUpload(last, last.url.first))
    => \E k \in {2, 3} :
           /\ Good(last.world.cands[k])
           /\ uploadStore[last.url.first] = last.world.cands[k].body

\* C33: the serve handler never returns the bytes of a blacklisted upload
\* for its hash, whatever file name the request carries: it answers with
\* the default avatar or 404.
C33_BlacklistedUploadNeverServed ==
    (last.set /\ last.handler = "serve" /\ last.url.first = BlacklistedUpload.first)
    => \/ last.status = "404"
       \/ /\ last.status = "200"
          /\ Exists(last.before.us, DEFAULT_AVATAR_HASH)
          /\ last.body = last.before.us[DEFAULT_AVATAR_HASH]

\* C34: in an admitted upload the quota is consumed (with the limiter
\* reachable, the account's count goes up by one as the request passes the
\* quota check) before the write of the upload store is attempted: the
\* store is only written by a request that has passed the check; and when
\* the write fails the request ends in InternalError with the account's
\* count left as it is, also as the response goes out.
C34_QuotaBeforeWrite ==
    /\ [][(up.pc = "limit" /\ up'.pc = "profile" /\ up'.redisOk) =>
              limiter'[up.account] = limiter[up.account] + 1]_vars
    /\ [][up'.pc = "write" => up.pc \in {"exists", "write"}]_vars
    /\ [][up'.pc = "exists" => up.pc \in {"profile", "exists"}]_vars
    /\ [][up'.pc = "profile" => up.pc \in {"limit", "profile"}]_vars
    /\ [][uploadStore' # uploadStore => up.pc = "write"]_vars
    /\ [][(up.pc = "write" /\ up'.pc = "done") =>
              (/\ limiter' = limiter
               /\ up'.result = "InternalError" <=> uploadStore' = uploadStore)]_vars
    /\ [][(up.pc = "done" /\ up' # up) => limiter' = limiter]_vars

\* The write failed for a request that had consumed quota, which is kept.
C34_Witness ==
    /\ up.pc = "done" /\ up.result = "InternalError" /\ up.redisOk
    /\ limiter[up.account] >= 1

Refreshed == blacklist'.clock = blacklist.clock /\ blacklist'.did \in {"updated", "failed"}

\* C36: after 5 consecutive failed refresh attempts the refresher performs
\* no remote fetch for the following 3 x cache_ttl; fewer than 5
\* consecutive failures never make it skip a refresh; a successful refresh
\* resets the failure count to 0.
C36_BackOff ==
    /\ [][(Refreshed /\ blacklist.streak = MAX_FAIL_COUNT) =>
              blacklist.clock - blacklist.fifthAt >= CACHE_TTL * 3]_vars
    /\ [](blacklist.did = "skipped" => blacklist.streak >= MAX_FAIL_COUNT)
    /\ [](blacklist.did = "updated" => blacklist.failCount = 0)

(***************************************************************************)
(* Store errors in the GET handlers.                                       *)
(***************************************************************************)
\* What the handler of request l answers from the stores l found, were the
\* store operations to go as `io` says.
Replay(l, io) ==
    CASE l.handler = "proxy" ->
             proxyHandler(l.url, l.blacklisted, l.options, l.fresh, l.world, io,
                          l.before.us, l.before.ps)
      [] l.handler = "serve" ->
             serveHandler(l.url.first, l.blacklisted, l.world, io,
                          l.before.us, l.before.ps)
      [] OTHER ->
             ProfileImageHandler(l.handler, l.url, OptionsOf(l),
                                 shouldBypassCache(l.options), l.fresh, l.world, io,
                                 l.before.us, l.before.ps)

\* The request's handler is one of the four, and Replay is what it did.
Replayed ==
    (last.set /\ last.handler \in {"proxy", "serve", "avatar", "cover"})
    => LET again == Replay(last, last.io)
       IN  /\ again.status = last.status /\ again.body = last.body
           /\ again.proxyStore = proxyStore /\ again.uploadStore = uploadStore

\* The request found its converted image in the proxy store and could not
\* read it.
BrokenHit(l) ==
    /\ l.set /\ l.handler \in {"proxy", "avatar", "cover"}
    /\ ~l.fresh /\ l.io.exists /\ ~l.io.read /\ l.io.remove
    /\ ~Bypass(l.options)
    /\ Exists(l.before.ps, ImageKeyOf(l))

\* C37: if the reading of a stored converted image fails on a cache hit the
\* handler removes that imageKey from the proxy store and answers 500, so
\* that the next request rebuilds the image.
C37_BrokenHitRemoved ==
    BrokenHit(last) => (last.status = "500" /\ ~Exists(proxyStore, ImageKeyOf(last)))

\* The request as it would be with neither its original nor its converted
\* image in a store.
AsMiss(l) ==
    LET drop(store) == Remove(Remove(store, OrigKeyOf(l)), ImageKeyOf(l))
    IN  [l EXCEPT !.before = [us |-> drop(l.before.us), ps |-> drop(l.before.ps)]]

\* A store's exists or read fails during a GET /p/ request.
LookupFails(l) ==
    /\ l.set /\ l.handler = "proxy"
    /\ (~l.io.exists \/ ~l.io.read) /\ l.io.write /\ l.io.remove

\* C38: if exists or read on the proxy store fails with a transport error the
\* proxy handler treats the key as not present and goes on as on a miss: it
\* answers what it answers when neither image is stored.
C38_StoreErrorIsMiss ==
    LookupFails(last)
    => LET miss == Replay(AsMiss(last), AllOk)
       IN  last.status = miss.status /\ last.body = miss.body

\* Every store write of the request fails, and nothing else does.
WriteFails(l) ==
    /\ l.set /\ l.handler \in {"proxy", "serve", "avatar", "cover"}
    /\ l.io.exists /\ l.io.read /\ l.io.remove /\ ~l.io.write

\* The keys under which a handler that went from store `before` to store
\* `after` wrote.
WrittenKeys(before, after) ==
    {k \in DOMAIN after : k \notin DOMAIN before \/ before[k] # after[k]}

\* C39: in the proxy, avatar, cover and serve handlers a failed store write,
\* of the original or of the converted image, never fails the request: status
\* and body are those of the same request with the write succeeding, and the
\* store is left without the entry.
C39_WriteFailureHarmless ==
    WriteFails(last)
    => LET ok == Replay(last, AllOk)
       IN  /\ last.status = ok.status /\ last.body = ok.body
           /\ \A k \in WrittenKeys(last.before.ps, ok.proxyStore) : ~Exists(proxyStore, k)
           /\ \A k \in WrittenKeys(last.before.us, ok.uploadStore) : ~Exists(uploadStore, k)

\* C39, amended: a failed store write never fails the request: status and
\* body are those of the same request with the write succeeding, and the
\* stores hold nothing of this request: under a key the request would have
\* written there is no entry, or the entry the request found there.
C39_WriteFailureLeavesNothing ==
    WriteFails(last)
    => LET ok == Replay(last, AllOk)
           kept(before, after, k) ==
               Exists(after, k) => (Exists(before, k) /\ after[k] = before[k])
       IN  /\ last.status = ok.status /\ last.body = ok.body
           /\ \A k \in WrittenKeys(last.before.ps, ok.proxyStore) :
                  kept(last.before.ps, proxyStore, k)
           /\ \A k \in WrittenKeys(last.before.us, ok.uploadStore) :
                  kept(last.before.us, uploadStore, k)

\* A request whose writes failed was answered as a working store would have
\* had it answered, and that store would have kept an entry of it.
C39_Witness ==
    /\ WriteFails(last)
    /\ LET ok == Replay(last, AllOk)
       IN  WrittenKeys(last.before.ps, ok.proxyStore)
               \cup WrittenKeys(last.before.us, ok.uploadStore) # {}

(***************************************************************************)
(* The double-proxy loop.                                                  *)
(***************************************************************************)
\* The turns the loop has before it, at most: one for each URL of the
\* service under /p from the url it holds inwards.
Layers(u) ==
    LET token == u.url.rest.token
    IN  IF ~DoubleProxied(u.url) THEN 0
        ELSE 1 + Len(token.exts) + (IF token.leaf \in {"pages", "bare"} THEN 1 ELSE 0)

\* Every turn of the loop takes a layer off.
UnwrapDecreases ==
    [][(unwrap.pc = "loop" /\ unwrap'.pc = "loop") => Layers(unwrap') < Layers(unwrap)]_vars

\* On exit the url is not one of the service's own /p URLs.
UnwrapResolved == unwrap.pc = "done" => ~DoubleProxied(unwrap.url)

\* A token that cannot be decoded is answered with the fallback image's URL.
UnwrapFallsBack == unwrap.undecodable => unwrap.url = FallbackHref

\* C40: the double-proxy loop ends for every /p/ token after a bounded
\* number of turns, four as the bound is suggested; on exit the url is not
\* one of the service's own /p URLs; and a token that cannot be decoded
\* resolves to the fallback image's URL.
C40_UnwrapBounded ==
    /\ unwrap.iterations <= 4
    /\ UnwrapResolved
    /\ UnwrapFallsBack

====
